---- MODULE Spec2Model ----
(***************************************************************************)
(* Model of the libtelio device runtime (src/device/mod.rs): the requested *)
(* state kept by Runtime, the external actions that mutate it and the      *)
(* WireGuard state consolidation every action ends with.                   *)
(*                                                                         *)
(* Option<T> is modelled as a set with at most one element: None is {} and *)
(* Some(x) is {x}.  Keys, IP addresses and endpoints are small integers.   *)
(* An IpNetwork of a single address i is the integer i; 0.0.0.0/0 and ::/0 *)
(* are DefaultRouteV4 and DefaultRouteV6.                                  *)
(***************************************************************************)
EXTENDS Integers, FiniteSets, Sequences, TLC

\* ------------------------------------------------------------------ bounds
NumKeys == 2
NumIps == 2

\* --------------------------------------------------------------- constants
ListenPort == 1234

\* ---------------------------------------------------------------- Option<T>
None == {}
Some(x) == {x}
is_some(o) == o # {}
is_none(o) == o = {}
unwrap(o) == CHOOSE x \in o : TRUE

\* ------------------------------------------------------------------- keys
SecretKeys == 1..NumKeys
\* SecretKey::public(): deterministic and injective, never the identity
public(k) == k + 100

MeshKeyOne == {201}
MeshKeyTwo == {202}
MeshKeys == MeshKeyOne \cup MeshKeyTwo
VpnKeys == {301}

Ips == 1..NumIps
DefaultRouteV4 == 0
DefaultRouteV6 == -1
DefaultRoutes == {DefaultRouteV4, DefaultRouteV6}

VpnEndpoints == {900}
\* the UDP proxy's local endpoint 127.0.0.1:<port of pk>
ProxyEndpoint(pk) == 1000 + pk

\* ------------------------------------------------------- user-supplied data
\* telio_model::config::Peer, reduced to base.public_key and base.ip_addresses
MkPeer(pk, ip) == [public_key |-> pk, ip_addresses |-> Some({ip})]

\* the peer lists a host may pass: None, or a prefix of the mesh peers; the
\* first peer owns address 1, the second any address (so it may collide)
PeerLists ==
    {None}
    \cup {Some({MkPeer(k, 1)}) : k \in MeshKeyOne}
    \cup {Some({MkPeer(k1, 1), MkPeer(k2, ip)}) :
              k1 \in MeshKeyOne, k2 \in MeshKeyTwo, ip \in Ips}

\* telio_model::config::Config, reduced to this.public_key and peers
Configs == [this_public_key : {public(k) : k \in SecretKeys}, peers : PeerLists]

\* telio_model::mesh::ExitNode: a mesh peer named by its key alone, or a VPN
\* server with or without endpoint, routing everything or the address 1 only
ExitNodes ==
    [public_key : MeshKeys, endpoint : {None}, allowed_ips : {None}]
    \cup [public_key : VpnKeys,
          endpoint : {None} \cup {Some(e) : e \in VpnEndpoints},
          allowed_ips : {None, Some({1})}]

UpstreamServers == {<<8>>}

\* collaborator failures an action may observe
Faults == {"none", "proxy", "dns"}

VARIABLES
    validate_keys,       \* features.validate_keys.0
    private_key,         \* requested_state.device_config.private_key
    meshnet_config,      \* requested_state.meshnet_config
    old_meshnet_config,  \* requested_state.old_meshnet_config
    exit_node,           \* requested_state.exit_node
    last_exit_node,      \* requested_state.last_exit_node
    upstream_servers,    \* requested_state.upstream_servers
    dns_resolver,        \* entities.dns.resolver.is_some()
    should_bind,         \* telio_dns::bind_tun flag
    proxy_peers,         \* peers the UDP proxy is configured with
    wg,                  \* the live WireGuard interface
    last,                \* the action just executed, its result and UAPI sets
    running,             \* Device::is_running(): Device.rt.is_some()
    leaked,              \* entities Runtime::stop found shared and did not stop
    entities,            \* Runtime.entities: the components started, None without a Runtime
    wg_stun_server,      \* requested_state.wg_stun_server
    task,                \* where the Runtime task is inside wait_with_update
    node_event,          \* the Nodes reported last: of an event, of external_nodes
    event_rx,            \* the host's broadcast channel, as its receiver sees it
    uapi_arg,            \* the value a conversion or pure function is applied to
    uapi_ret             \* what the conversion or function returned

\* the state of the Runtime task
runtime_vars == <<private_key, meshnet_config, old_meshnet_config, exit_node,
                  last_exit_node, upstream_servers, dns_resolver, should_bind,
                  proxy_peers, wg>>

\* what no external action of the Runtime task touches
outer_vars == <<running, leaked, entities, wg_stun_server, task, node_event,
               event_rx,
               uapi_arg, uapi_ret>>

vars == <<validate_keys, private_key, meshnet_config, old_meshnet_config,
          exit_node, last_exit_node, upstream_servers, dns_resolver,
          should_bind, proxy_peers, wg, last, running, leaked, entities,
          wg_stun_server, task, node_event, event_rx, uapi_arg, uapi_ret>>

\* ------------------------------------------------------ requested state
\* the part of RequestedState the consolidator reads
RS(key, mc, ex) == [private_key |-> key, meshnet_config |-> mc, exit_node |-> ex,
                    wg_stun_server |-> wg_stun_server]

\* the Runtime task waiting in the select of wait_with_update
Idle == [pc |-> "select", stimulus |-> "none", consolidations |-> 0,
         in_progress |-> 0, snapshot |-> None]

\* stun::StunServer: the WireGuard STUN server elected, one in this model
StunServers == {[public_key |-> 401, ip |-> NumIps + 1, endpoint |-> 901]}

\* config.peers.unwrap_or_default() of an Option<Config>
peers_of(mc) ==
    IF is_none(mc) THEN {}
    ELSE IF is_none(unwrap(mc).peers) THEN {} ELSE unwrap(unwrap(mc).peers)

peer_keys(mc) == {p.public_key : p \in peers_of(mc)}

\* --------------------------------------------------- Runtime, pure parts
\* set_config: cfg.this.public_key == self.get_private_key().public()
keys_match_never_checked(cfg, key) == TRUE
keys_match(cfg, key) == cfg.this_public_key = public(key)

\* set_private_key: should_validate_keys && meshnet_is_on && key_is_the_different
key_change_ignores_meshnet(validate, mc, current, new) == FALSE
key_change_rejected_without_meshnet(validate, mc, current, new) ==
    validate /\ current # new
key_change_rejected(validate, mc, current, new) ==
    validate /\ is_some(mc) /\ current # new

\* connect_exit_node with the membership test always failing
no_node_is_meshnet_exit_node(mc, node) == FALSE
\* connect_exit_node with the membership test always passing
every_node_is_meshnet_exit_node(mc, node) == TRUE
\* connect_exit_node: is the node one of the peers of the current config
is_meshnet_exit_node(mc, node) ==
    IF is_none(mc) THEN FALSE
    ELSE IF is_none(unwrap(mc).peers) THEN FALSE
    ELSE \E p \in unwrap(unwrap(mc).peers) : p.public_key = node.public_key

\* disconnect_exit_node: Some(exit_node) if &exit_node.public_key == node_key
any_exit_node_matches(ex, node_key) == is_some(ex)
exit_node_matches(ex, node_key) == is_some(ex) /\ unwrap(ex).public_key = node_key

\* connect_exit_node returns the consolidation's result to its caller
connect_exit_node_result_ignored(c) == "Ok"
connect_exit_node_result(c) == c.result

\* set_config: the exit node after the "disabling meshnet" step
exit_always_cleared(mc, old, ex) == None
exit_after_set_config(mc, old, ex) ==
    IF is_none(mc) /\ is_some(ex)
       /\ is_some(old) /\ is_some(unwrap(old).peers)
       /\ \E p \in unwrap(unwrap(old).peers) : unwrap(ex).public_key = p.public_key
    THEN None
    ELSE ex

\* ------------------------------------------------- WG state consolidator
\* allowed_ips of a mesh peer: its addresses, plus the default routes when it
\* is the current meshnet exit
mesh_allowed_ips(p, ex) ==
    (IF is_none(p.ip_addresses) THEN {} ELSE unwrap(p.ip_addresses))
    \cup (IF is_some(ex) /\ unwrap(ex).public_key = p.public_key
          THEN DefaultRoutes ELSE {})

\* allowed_ips of a VPN exit peer
vpn_allowed_ips(ex) ==
    IF is_none(ex.allowed_ips) THEN DefaultRoutes ELSE unwrap(ex.allowed_ips)

\* the endpoint cross-ping check elected for peer pk
DirectEndpoint(pk) == 2000 + pk

\* the peers that get their direct endpoint: cross-ping check has an elected
\* candidate for them, whether or not upgrade sync agreed
direct_when_elected(ent) ==
    IF is_some(ent) /\ is_some(unwrap(ent).direct)
    THEN unwrap(unwrap(ent).direct).cross_ping_check.elected
    ELSE {}

\* the peers that get their direct endpoint: cross-ping check has an elected
\* candidate for them and upgrade sync has agreed with them
direct_endpoints(ent) ==
    IF is_some(ent) /\ is_some(unwrap(ent).direct)
    THEN unwrap(unwrap(ent).direct).cross_ping_check.elected
         \cap unwrap(unwrap(ent).direct).upgrade_sync.agreed
    ELSE {}

\* the desired peers of the interface: public key -> peer
requested_peers(rs, pp) ==
    LET mesh == peers_of(rs.meshnet_config)
        mkeys == {p.public_key : p \in mesh}
        vpn == IF is_some(rs.exit_node) /\ unwrap(rs.exit_node).public_key \notin mkeys
               THEN {unwrap(rs.exit_node).public_key} ELSE {}
        stun == IF is_some(rs.wg_stun_server) /\ is_some(rs.meshnet_config)
                THEN {unwrap(rs.wg_stun_server).public_key} ELSE {}
    IN  [pk \in mkeys \cup vpn \cup stun |->
            IF pk \in mkeys
            THEN LET p == CHOOSE p \in mesh : p.public_key = pk
                 IN  [allowed_ips |-> mesh_allowed_ips(p, rs.exit_node),
                      endpoint |-> IF pk \in direct_endpoints(entities)
                                   THEN Some(DirectEndpoint(pk))
                                   ELSE IF pk \in pp THEN Some(ProxyEndpoint(pk))
                                   ELSE None]
            ELSE IF pk \in stun
            THEN [allowed_ips |-> {unwrap(rs.wg_stun_server).ip},
                  endpoint |-> Some(unwrap(rs.wg_stun_server).endpoint)]
            ELSE [allowed_ips |-> vpn_allowed_ips(unwrap(rs.exit_node)),
                  endpoint |-> unwrap(rs.exit_node).endpoint]]

\* no allowed-IP network is requested for two peers
allowed_ips_never_checked(d) == TRUE
check_allowed_ips_correctness(d) ==
    \A p, q \in DOMAIN d : p # q => d[p].allowed_ips \cap d[q].allowed_ips = {}

\* peers to add, update or remove: one UAPI set each
peer_diff(d, live) ==
    {pk \in DOMAIN d \cup DOMAIN live :
        \/ pk \notin DOMAIN d
        \/ pk \notin DOMAIN live
        \/ (pk \in DOMAIN d /\ pk \in DOMAIN live /\ d[pk] # live[pk])}

\* a consolidator that adds and updates peers and never removes one
consolidate_without_removal(rs, pp, itf) ==
    LET d == requested_peers(rs, pp)
        kept == [pk \in DOMAIN d \cup DOMAIN itf.peers |->
                    IF pk \in DOMAIN d THEN d[pk] ELSE itf.peers[pk]]
    IN  IF ~check_allowed_ips_correctness(d)
        THEN [result |-> "BadAllowedIps", wg |-> itf, writes |-> 0]
        ELSE [result |-> "Ok",
              wg |-> [itf EXCEPT !.private_key = Some(rs.private_key), !.peers = kept],
              writes |-> (IF itf.private_key = Some(rs.private_key) THEN 0 ELSE 1)
                         + Cardinality({pk \in DOMAIN d :
                               pk \notin DOMAIN itf.peers \/ d[pk] # itf.peers[pk]})]

\* consolidate_wg_state(requested_state, entities): the result, the interface
\* afterwards and the number of UAPI set commands issued
consolidate_wg_state(rs, pp, itf) ==
    LET d == requested_peers(rs, pp)
    IN  IF ~check_allowed_ips_correctness(d)
        THEN [result |-> "BadAllowedIps", wg |-> itf, writes |-> 0]
        ELSE [result |-> "Ok",
              wg |-> [itf EXCEPT !.private_key = Some(rs.private_key), !.peers = d],
              writes |-> (IF itf.private_key = Some(rs.private_key) THEN 0 ELSE 1)
                         + Cardinality(peer_diff(d, itf.peers))]

\* ------------------------------------------- Runtime start: the entities
\* telio_model::api_config::EndpointProvider
EndpointProviders == {"Local", "Stun", "Upnp"}

\* Features, reduced to direct (FeatureDirect::providers) and nurse.is_some()
FeatureSets ==
    [direct : {None} \cup {Some([providers |-> ps]) :
                              ps \in {None} \cup {Some(x) : x \in SUBSET EndpointProviders}},
     nurse : BOOLEAN]
Features_default == [direct |-> None, nurse |-> FALSE]

\* has_provider: "Default is all providers"
has_provider_when_listed(direct, provider) ==
    is_some(direct.providers) /\ provider \in unwrap(direct.providers)
has_provider(direct, provider) ==
    IF is_none(direct.providers) THEN TRUE ELSE provider \in unwrap(direct.providers)

\* endpoint_providers: every provider created is pushed, Local, Stun, Upnp
endpoint_providers(direct) ==
    (IF has_provider(direct, "Local") THEN <<"LocalInterfacesEndpointProvider">> ELSE <<>>)
    \o (IF has_provider(direct, "Stun") THEN <<"StunEndpointProvider">> ELSE <<>>)
    \o (IF has_provider(direct, "Upnp") THEN <<"UpnpEndpointProvider">> ELSE <<>>)

\* DirectEntities; cross_ping_check is started with endpoint_providers.clone()
DirectEntities(direct) ==
    [local_interfaces_endpoint_provider |-> has_provider(direct, "Local"),
     stun_endpoint_provider |-> has_provider(direct, "Stun"),
     upnp_endpoint_provider |-> has_provider(direct, "Upnp"),
     endpoint_providers |-> endpoint_providers(direct),
     cross_ping_check |-> [endpoint_providers |-> endpoint_providers(direct),
                           elected |-> {}],
     upgrade_sync |-> [agreed |-> {}]]

\* the components Runtime::start starts, in the order it starts them; Nurse
\* only with lana initialized
start_order(features, lana) ==
    <<"Multiplexer", "UdpProxy", "Derp", "WireguardInterface">>
    \o (IF lana /\ features.nurse THEN <<"Nurse">> ELSE <<>>)
    \o (IF is_some(features.direct)
        THEN endpoint_providers(unwrap(features.direct))
             \o <<"CrossPingCheck", "UpgradeSync", "SessionKeeper">>
        ELSE <<>>)

\* Runtime.entities after Runtime::start(.., features, ..)
Runtime_entities(features, lana) ==
    [direct |-> IF is_some(features.direct)
                THEN Some(DirectEntities(unwrap(features.direct))) ELSE None,
     nurse |-> lana /\ features.nurse,
     started |-> start_order(features, lana)]

\* an order that takes the WireGuard interface before the direct entities
stop_order_interface_first(ent) ==
    <<"WireguardInterface">>
    \o (IF is_some(ent.direct)
        THEN <<"CrossPingCheck">>
             \o (IF unwrap(ent.direct).local_interfaces_endpoint_provider
                 THEN <<"LocalInterfacesEndpointProvider">> ELSE <<>>)
             \o (IF unwrap(ent.direct).stun_endpoint_provider
                 THEN <<"StunEndpointProvider">> ELSE <<>>)
             \o (IF unwrap(ent.direct).upnp_endpoint_provider
                 THEN <<"UpnpEndpointProvider">> ELSE <<>>)
             \o <<"SessionKeeper", "UpgradeSync">>
        ELSE <<>>)
    \o <<"Multiplexer">>
    \o (IF ent.nurse THEN <<"Nurse">> ELSE <<>>)
    \o <<"Derp", "UdpProxy">>

\* the components Runtime::stop stops, in the order it takes them
stop_order(ent) ==
    (IF is_some(ent.direct)
     THEN <<"CrossPingCheck">>
          \o (IF unwrap(ent.direct).local_interfaces_endpoint_provider
              THEN <<"LocalInterfacesEndpointProvider">> ELSE <<>>)
          \o (IF unwrap(ent.direct).stun_endpoint_provider
              THEN <<"StunEndpointProvider">> ELSE <<>>)
          \o (IF unwrap(ent.direct).upnp_endpoint_provider
              THEN <<"UpnpEndpointProvider">> ELSE <<>>)
          \o <<"SessionKeeper", "UpgradeSync">>
     ELSE <<>>)
    \o <<"WireguardInterface", "Multiplexer">>
    \o (IF ent.nurse THEN <<"Nurse">> ELSE <<>>)
    \o <<"Derp", "UdpProxy">>

\* what Runtime::stop releases, in order: the components of stop_order and,
\* after CrossPingCheck, the provider list (drop(direct.endpoint_providers))
stop_steps(order) ==
    IF order # <<>> /\ Head(order) = "CrossPingCheck"
    THEN <<"CrossPingCheck", "endpoint_providers">> \o Tail(order)
    ELSE order

ProviderNames == {"LocalInterfacesEndpointProvider", "StunEndpointProvider",
                  "UpnpEndpointProvider"}

\* the holders of an Arc clone of component c besides Runtime.entities: the
\* provider list and CrossPingCheck hold the providers, the providers hold
\* the WireGuard interface, Nurse holds the relay client
holders(c) ==
    IF c \in ProviderNames THEN {"CrossPingCheck", "endpoint_providers"}
    ELSE IF c = "WireguardInterface" THEN ProviderNames
    ELSE IF c = "Derp" THEN {"Nurse"}
    ELSE {}

\* stop_arc_entity! over steps[i..]: Arc::try_unwrap succeeds when neither
\* the host (held) nor a holder still alive shares the component; otherwise
\* the component is left out with a warning and lives on
RECURSIVE unwrap_and_stop(_, _, _, _, _)
unwrap_and_stop(steps, i, alive, held, stopped) ==
    IF i > Len(steps) THEN stopped
    ELSE LET c == steps[i]
         IN  IF c = "endpoint_providers"
             THEN unwrap_and_stop(steps, i + 1, alive \ {c}, held, stopped)
             ELSE IF c \notin held /\ holders(c) \cap alive = {}
             THEN unwrap_and_stop(steps, i + 1, alive \ {c}, held, Append(stopped, c))
             ELSE unwrap_and_stop(steps, i + 1, alive, held, stopped)

\* the components whose stop() Runtime::stop invokes, in order
stopped_entities(ent, held) ==
    LET steps == stop_steps(stop_order(ent))
    IN  unwrap_and_stop(steps, 1, {steps[i] : i \in 1..Len(steps)}, held, <<>>)

was_stopped(ent, held, c) ==
    \E i \in 1..Len(stopped_entities(ent, held)) : stopped_entities(ent, held)[i] = c

\* ------------------------------------------- the host's event channel
\* tokio::sync::broadcast::channel(256), with a capacity of Capacity here
Capacity == 3

\* Device::new: the channel with its one receiver, event_rx, owned by the
\* delivery task. queue: the events sent and not yet received; lagged: the
\* events overwritten before the receiver saw them; receiving: the delivery
\* task is in its loop; sent, called: the events published on the channel and
\* the calls of event_cb so far
channel == [queue |-> <<>>, lagged |-> 0, receiving |-> TRUE, sent |-> 0, called |-> 0]

\* Sender::send: with no receiver left the value is dropped (SendError); a
\* full channel overwrites its oldest value
send(ch, event) ==
    IF ~ch.receiving
    THEN [ch EXCEPT !.sent = @ + 1]
    ELSE IF Len(ch.queue) < Capacity
    THEN [ch EXCEPT !.queue = Append(@, event), !.sent = @ + 1]
    ELSE [ch EXCEPT !.queue = Append(Tail(@), event), !.lagged = @ + 1,
                    !.sent = @ + 1]

\* Receiver::recv, when it returns: Err(RecvError::Lagged(n)) if values were
\* overwritten, else the oldest value
event_rx_recv(ch) ==
    IF ch.lagged > 0 THEN [err |-> "Lagged", n |-> ch.lagged]
    ELSE [ok |-> Head(ch.queue)]

\* ------------------------------------------------------------------- Init
\* the state Runtime::start returns: requested_state holds the device config
\* only, the interface has the private key (set_secret_key) and no peers
Init ==
    /\ validate_keys \in BOOLEAN
    /\ private_key \in SecretKeys
    /\ meshnet_config = None
    /\ old_meshnet_config = None
    /\ exit_node = None
    /\ last_exit_node = None
    /\ upstream_servers = None
    /\ dns_resolver = FALSE
    /\ should_bind = FALSE
    /\ proxy_peers = {}
    /\ wg = [private_key |-> Some(private_key), listen_port |-> None, peers |-> <<>>]
    /\ last = [op |-> "start", result |-> "Ok", writes |-> 1]
    /\ running = TRUE
    /\ leaked = {}
    /\ entities = Some(Runtime_entities(Features_default, FALSE))
    /\ node_event = None
    /\ event_rx = channel
    /\ wg_stun_server = None
    /\ task = Idle
    /\ uapi_arg = None
    /\ uapi_ret = None

Done(op, result, writes) == last' = [op |-> op, result |-> result, writes |-> writes]

\* ---------------------------------------------------------------- actions
\* the WireGuard driver gets its listen port
assign_listen_port ==
    /\ UNCHANGED outer_vars
    /\ is_none(wg.listen_port)
    /\ wg' = [wg EXCEPT !.listen_port = Some(ListenPort)]
    /\ Done("assign_listen_port", "Ok", 0)
    /\ UNCHANGED <<validate_keys, private_key, meshnet_config, old_meshnet_config,
                   exit_node, last_exit_node, upstream_servers, dns_resolver,
                   should_bind, proxy_peers>>

\* Runtime::set_config(config)
set_config(config, fault) ==
    /\ UNCHANGED outer_vars
    /\ UNCHANGED <<validate_keys, private_key, last_exit_node, upstream_servers,
                   dns_resolver, should_bind>>
    /\ IF is_some(config) /\ validate_keys /\ ~keys_match(unwrap(config), private_key)
       THEN \* return Err(Error::BadPublicKey)
            /\ Done("set_config", "BadPublicKey", 0)
            /\ UNCHANGED <<meshnet_config, old_meshnet_config, exit_node, proxy_peers, wg>>
       ELSE /\ old_meshnet_config' = meshnet_config
            /\ meshnet_config' = config
            /\ IF is_none(wg.listen_port)
               THEN \* wait_for_listen_port(1 s) times out
                    /\ Done("set_config", "Adapter", 0)
                    /\ UNCHANGED <<exit_node, proxy_peers, wg>>
               ELSE IF is_none(wg.private_key)
               THEN /\ Done("set_config", "BadPrivateKey", 0)
                    /\ UNCHANGED <<exit_node, proxy_peers, wg>>
               ELSE IF fault = "proxy"
               THEN \* proxy.configure(..) fails
                    /\ Done("set_config", "ProxyError", 0)
                    /\ UNCHANGED <<exit_node, proxy_peers, wg>>
               ELSE IF fault = "dns" /\ dns_resolver
               THEN \* upsert_dns_peers() fails
                    /\ proxy_peers' = peer_keys(config)
                    /\ Done("set_config", "DnsResolverError", 0)
                    /\ UNCHANGED <<exit_node, wg>>
               ELSE LET ex == exit_after_set_config(config, meshnet_config, exit_node)
                        c == consolidate_wg_state(RS(private_key, config, ex),
                                                  peer_keys(config), wg)
                    IN  /\ proxy_peers' = peer_keys(config)
                        /\ exit_node' = ex
                        /\ wg' = c.wg
                        /\ Done("set_config", c.result, c.writes)

\* Runtime::set_private_key(key)
set_private_key(key) ==
    /\ UNCHANGED outer_vars
    /\ UNCHANGED <<validate_keys, meshnet_config, old_meshnet_config, exit_node,
                   last_exit_node, upstream_servers, dns_resolver, should_bind,
                   proxy_peers>>
    /\ IF key_change_rejected(validate_keys, meshnet_config, private_key, key)
       THEN /\ Done("set_private_key", "BadPublicKey", 0)
            /\ UNCHANGED <<private_key, wg>>
       ELSE IF dns_resolver
       THEN /\ Done("set_private_key", "DnsNotDisabled", 0)
            /\ UNCHANGED <<private_key, wg>>
       ELSE LET c == consolidate_wg_state(RS(key, meshnet_config, exit_node),
                                          proxy_peers, wg)
            IN  /\ private_key' = key
                /\ wg' = c.wg
                /\ Done("set_private_key", c.result, c.writes)

\* Runtime::connect_exit_node(node)
connect_exit_node(node, fault) ==
    /\ UNCHANGED outer_vars
    /\ UNCHANGED <<validate_keys, private_key, meshnet_config, old_meshnet_config,
                   last_exit_node, upstream_servers, dns_resolver, proxy_peers>>
    /\ should_bind' = TRUE
    /\ IF is_meshnet_exit_node(meshnet_config, node) /\ dns_resolver /\ fault = "dns"
       THEN \* reconfigure_dns_peer(..) fails
            /\ Done("connect_exit_node", "DnsResolverError", 0)
            /\ UNCHANGED <<exit_node, wg>>
       ELSE IF ~is_meshnet_exit_node(meshnet_config, node) /\ is_none(node.endpoint)
       THEN /\ Done("connect_exit_node", "EndpointNotProvided", 0)
            /\ UNCHANGED <<exit_node, wg>>
       ELSE LET c == consolidate_wg_state(RS(private_key, meshnet_config, Some(node)),
                                          proxy_peers, wg)
            IN  /\ exit_node' = Some(node)
                /\ wg' = c.wg
                /\ Done("connect_exit_node", connect_exit_node_result(c), c.writes)

\* Runtime::disconnect_exit_nodes(), reporting as operation op
disconnect(op, fault) ==
    IF is_some(exit_node)
    THEN /\ exit_node' = None
         /\ last_exit_node' = exit_node
         /\ should_bind' = FALSE
         /\ IF dns_resolver /\ is_some(upstream_servers) /\ fault = "dns"
            THEN \* reconfigure_dns_peer(..) fails
                 /\ Done(op, "DnsResolverError", 0)
                 /\ UNCHANGED wg
            ELSE LET c == consolidate_wg_state(RS(private_key, meshnet_config, None),
                                               proxy_peers, wg)
                 IN  /\ wg' = c.wg
                     /\ Done(op, c.result, c.writes)
    ELSE /\ Done(op, "Ok", 0)
         /\ UNCHANGED <<exit_node, last_exit_node, should_bind, wg>>

disconnect_exit_nodes(fault) ==
    /\ UNCHANGED outer_vars
    /\ UNCHANGED <<validate_keys, private_key, meshnet_config, old_meshnet_config,
                   upstream_servers, dns_resolver, proxy_peers>>
    /\ disconnect("disconnect_exit_nodes", fault)

\* Runtime::disconnect_exit_node(node_key)
disconnect_exit_node(node_key, fault) ==
    /\ UNCHANGED outer_vars
    /\ UNCHANGED <<validate_keys, private_key, meshnet_config, old_meshnet_config,
                   upstream_servers, dns_resolver, proxy_peers>>
    /\ IF exit_node_matches(exit_node, node_key)
       THEN disconnect("disconnect_exit_node", fault)
       ELSE /\ Done("disconnect_exit_node", "InvalidNode", 0)
            /\ UNCHANGED <<exit_node, last_exit_node, should_bind, wg>>

\* Runtime::start_dns(upstream_dns_servers)
start_dns(servers, fault) ==
    /\ UNCHANGED outer_vars
    /\ UNCHANGED <<validate_keys, private_key, meshnet_config, old_meshnet_config,
                   exit_node, last_exit_node, should_bind, proxy_peers>>
    /\ upstream_servers' = Some(servers)
    /\ IF is_none(wg.private_key)
       THEN /\ Done("start_dns", "AdapterConfig", 0)
            /\ UNCHANGED <<dns_resolver, wg>>
       ELSE IF ~dns_resolver /\ is_none(wg.listen_port)
       THEN \* wait_for_listen_port(100 ms) times out
            /\ Done("start_dns", "Adapter", 0)
            /\ UNCHANGED <<dns_resolver, wg>>
       ELSE IF fault = "dns"
       THEN \* forward(..), LocalDnsResolver::new(..) or upsert(..) fails
            /\ dns_resolver' \in {dns_resolver, TRUE}
            /\ Done("start_dns", "DnsResolverError", 0)
            /\ UNCHANGED wg
       ELSE LET c == consolidate_wg_state(RS(private_key, meshnet_config, exit_node),
                                          proxy_peers, wg)
            IN  /\ dns_resolver' = TRUE
                /\ wg' = c.wg
                /\ Done("start_dns", c.result, c.writes)

\* Runtime::stop_dns()
stop_dns ==
    /\ UNCHANGED outer_vars
    /\ UNCHANGED <<validate_keys, private_key, meshnet_config, old_meshnet_config,
                   exit_node, last_exit_node, should_bind, proxy_peers>>
    /\ upstream_servers' = None
    /\ dns_resolver' = FALSE
    /\ LET c == consolidate_wg_state(RS(private_key, meshnet_config, exit_node),
                                     proxy_peers, wg)
       IN  /\ wg' = c.wg
           /\ Done("stop_dns", c.result, c.writes)

\* wait_with_update: the 5 s tick; a consolidation failure is logged and ignored
tick ==
    /\ UNCHANGED outer_vars
    /\ UNCHANGED <<validate_keys, private_key, meshnet_config, old_meshnet_config,
                   exit_node, last_exit_node, upstream_servers, dns_resolver,
                   should_bind, proxy_peers>>
    /\ LET c == consolidate_wg_state(RS(private_key, meshnet_config, exit_node),
                                     proxy_peers, wg)
       IN  /\ wg' = c.wg
           /\ Done("tick", "Ok", c.writes)

\* the runtime loop over the inputs a host may pass: configs, exit nodes,
\* private keys, collaborator faults
Step(configs, nodes, keys, faults) ==
    \/ assign_listen_port
    \/ \E config \in {None} \cup {Some(c) : c \in configs}, fault \in faults :
           set_config(config, fault)
    \/ \E key \in keys : set_private_key(key)
    \/ \E node \in nodes, fault \in faults : connect_exit_node(node, fault)
    \/ \E node_key \in {n.public_key : n \in nodes}, fault \in faults :
           disconnect_exit_node(node_key, fault)
    \/ \E fault \in faults : disconnect_exit_nodes(fault)
    \/ tick

StepDns(faults) ==
    \/ \E servers \in UpstreamServers, fault \in faults : start_dns(servers, fault)
    \/ stop_dns

\* ---- the key-agreement runs: every key, both settings of validate_keys, DNS
KeyConfigs == {c \in Configs : c.peers \in {Some({MkPeer(k, 1)}) : k \in MeshKeyOne}}
KeyNodes == {n \in ExitNodes : n.public_key \in MeshKeyOne}

NextKeys ==
    \/ Step(KeyConfigs, KeyNodes, SecretKeys, Faults)
    \/ StepDns(Faults)

SpecKeys == Init /\ [][NextKeys]_vars

\* ---- the exit-node and consolidation runs: one key, validation enabled
ExitConfigs == {c \in Configs : c.this_public_key = public(1)}

InitExit == Init /\ validate_keys /\ private_key = 1

Next == Step(ExitConfigs, ExitNodes, {1}, {"none"})

Spec == InitExit /\ [][Next]_vars

\* ----------------------------------------------------------------- Device
\* DeviceConfig::default().private_key, the key of RequestedState::default()
DefaultKey == 0

\* entities Runtime::stop takes out of their Arc before stopping them
Entities == {"WireguardInterface", "UdpProxy"}

\* outcomes of Runtime::start: it succeeds, or the adapter cannot be created
StartFaults == {"none", "adapter"}

\* the interface of a device that has no Runtime
NoInterface == [private_key |-> None, listen_port |-> None, peers |-> <<>>]

\* Device::new: no Runtime yet
DeviceNew ==
    /\ validate_keys \in BOOLEAN
    /\ private_key = DefaultKey
    /\ meshnet_config = None
    /\ old_meshnet_config = None
    /\ exit_node = None
    /\ last_exit_node = None
    /\ upstream_servers = None
    /\ dns_resolver = FALSE
    /\ should_bind = FALSE
    /\ proxy_peers = {}
    /\ wg = NoInterface
    /\ last = [op |-> "new", result |-> "Ok", writes |-> 0]
    /\ running = FALSE
    /\ leaked = {}
    /\ entities = None
    /\ node_event = None
    /\ event_rx = channel
    /\ wg_stun_server = None
    /\ task = Idle

InitDevice ==
    /\ DeviceNew
    /\ uapi_arg = None
    /\ uapi_ret = None

\* Device::start: if self.is_running() { return Err(Error::AlreadyStarted) }
start_never_rejected(is_running) == FALSE
start_rejected(is_running) == is_running

\* Runtime::start(..).await? fails: the adapter cannot be created, or a
\* socket or task of the direct entities cannot
start_fails(features, fault) ==
    fault = "adapter" \/ (fault = "direct" /\ is_some(features.direct))

\* Device::start(config), features being those Device::new was given
Device_start(key, features, lana, fault) ==
    /\ UNCHANGED <<validate_keys, should_bind, leaked, task, node_event, event_rx, uapi_arg,
                   uapi_ret>>
    /\ IF start_rejected(running)
       THEN /\ Done("start", "AlreadyStarted", 0)
            /\ UNCHANGED <<private_key, meshnet_config, old_meshnet_config, exit_node,
                           last_exit_node, upstream_servers, dns_resolver,
                           proxy_peers, wg, running, entities, wg_stun_server>>
       ELSE IF start_fails(features, fault)
       THEN \* Runtime::start(..).await? fails: self.rt is not assigned
            /\ Done("start", IF fault = "adapter" THEN "Adapter" ELSE "Io", 0)
            /\ UNCHANGED <<private_key, meshnet_config, old_meshnet_config, exit_node,
                           last_exit_node, upstream_servers, dns_resolver,
                           proxy_peers, wg, running, entities, wg_stun_server>>
       ELSE \* self.rt = Some(Task::start(Runtime::start(..)))
            /\ running' = TRUE
            /\ entities' = Some(Runtime_entities(features, lana))
            /\ private_key' = key
            /\ meshnet_config' = None
            /\ old_meshnet_config' = None
            /\ exit_node' = None
            /\ last_exit_node' = None
            /\ upstream_servers' = None
            /\ wg_stun_server' = None
            /\ dns_resolver' = FALSE
            /\ proxy_peers' = {}
            /\ wg' = [private_key |-> Some(key), listen_port |-> None, peers |-> <<>>]
            /\ Done("start", "Ok", 1)

\* Runtime::stop: requested_state = Default::default() is reached whatever
\* stop_entity! found held
reset_only_when_all_stopped(held) == held = {}
requested_state_reset(held) == TRUE

\* Runtime::stop(self), with the entities in held still shared elsewhere
Runtime_stop(held) ==
    LET c == consolidate_wg_state(RS(private_key, meshnet_config, exit_node),
                                  proxy_peers, wg)
    IN  \* let _ = self.stop_dns().await
        /\ dns_resolver' = FALSE
        /\ leaked' = held
        /\ entities' = None
        /\ proxy_peers' = IF was_stopped(unwrap(entities), held, "UdpProxy")
                           THEN {} ELSE proxy_peers
        /\ wg' = IF was_stopped(unwrap(entities), held, "WireguardInterface")
                  THEN NoInterface ELSE c.wg
        /\ IF requested_state_reset(held)
           THEN /\ private_key' = DefaultKey
                /\ meshnet_config' = None
                /\ old_meshnet_config' = None
                /\ exit_node' = None
                /\ last_exit_node' = None
                /\ upstream_servers' = None
                /\ wg_stun_server' = None
           ELSE /\ upstream_servers' = None
                /\ UNCHANGED <<private_key, meshnet_config, old_meshnet_config,
                               exit_node, last_exit_node, wg_stun_server>>
        /\ last' = [op |-> "stop", result |-> "Ok", writes |-> c.writes,
                    stopped |-> stopped_entities(unwrap(entities), held)]

\* Device::stop()
Device_stop(held) ==
    /\ UNCHANGED <<validate_keys, should_bind, task, node_event, event_rx, uapi_arg, uapi_ret>>
    /\ IF running
       THEN \* if let Some(rt) = self.rt.take() { rt.stop() }
            /\ running' = FALSE
            /\ Runtime_stop(held)
       ELSE /\ Done("stop", "Ok", 0)
            /\ UNCHANGED <<private_key, meshnet_config, old_meshnet_config, exit_node,
                           last_exit_node, upstream_servers, dns_resolver,
                           proxy_peers, wg, running, leaked, entities,
                           wg_stun_server>>

\* the stops Runtime::stop has invoked when it awaits the stop of hung
RECURSIVE up_to(_, _)
up_to(stopped, hung) ==
    IF stopped = <<>> THEN <<>>
    ELSE IF Head(stopped) = hung THEN <<hung>>
    ELSE <<Head(stopped)>> \o up_to(Tail(stopped), hung)

\* Device::stop() when the stop of component hung never completes:
\* stop_entity! awaits it (task.await) and art.block_on(rt.stop()) does not
\* return; what follows the await in Runtime::stop is not executed
Device_stop_blocked(held, hung) ==
    /\ running
    /\ was_stopped(unwrap(entities), held, hung)
    /\ UNCHANGED <<validate_keys, should_bind, task, node_event, event_rx, uapi_arg, uapi_ret>>
    /\ running' = FALSE
    /\ LET c == consolidate_wg_state(RS(private_key, meshnet_config, exit_node),
                                     proxy_peers, wg)
           invoked == up_to(stopped_entities(unwrap(entities), held), hung)
           completed == {invoked[i] : i \in 1..Len(invoked)} \ {hung}
       IN  \* let _ = self.stop_dns().await
           /\ dns_resolver' = FALSE
           /\ upstream_servers' = None
           /\ leaked' = held
           /\ entities' = None
           /\ proxy_peers' = IF "UdpProxy" \in completed THEN {} ELSE proxy_peers
           /\ wg' = IF "WireguardInterface" \in completed THEN NoInterface ELSE c.wg
           /\ UNCHANGED <<private_key, meshnet_config, old_meshnet_config,
                          exit_node, last_exit_node, wg_stun_server>>
           /\ last' = [op |-> "stop", result |-> "Blocked", writes |-> c.writes,
                       stopped |-> invoked]

\* Device::rt(): self.rt.as_ref().ok_or(Error::NotStarted)
rt_unchecked(is_running) == "Ok"
rt(is_running) == IF is_running THEN "Ok" ELSE "NotStarted"

\* task_exec!(self.rt()?, ..) without a Runtime: the call returns the error
NotStarted(op) ==
    /\ Done(op, "NotStarted", 0)
    /\ UNCHANGED <<validate_keys, runtime_vars, outer_vars>>

\* Runtime calls that read and leave the requested state alone:
\* get_private_key, notify_network_change, external_nodes
read_only(op) ==
    /\ Done(op, "Ok", 0)
    /\ UNCHANGED <<validate_keys, runtime_vars, outer_vars>>

Device_get_private_key ==
    IF rt(running) = "Ok" THEN read_only("get_private_key")
    ELSE NotStarted("get_private_key")

Device_notify_network_change ==
    IF rt(running) = "Ok" THEN read_only("notify_network_change")
    ELSE NotStarted("notify_network_change")

Device_external_nodes ==
    IF rt(running) = "Ok" THEN read_only("external_nodes")
    ELSE NotStarted("external_nodes")

Device_set_private_key(key) ==
    IF rt(running) = "Ok" THEN set_private_key(key)
    ELSE NotStarted("set_private_key")

Device_set_config(config) ==
    IF rt(running) = "Ok" THEN set_config(config, "none")
    ELSE NotStarted("set_config")

Device_connect_exit_node(node) ==
    IF rt(running) = "Ok" THEN connect_exit_node(node, "none")
    ELSE NotStarted("connect_exit_node")

Device_disconnect_exit_node(node_key) ==
    IF rt(running) = "Ok" THEN disconnect_exit_node(node_key, "none")
    ELSE NotStarted("disconnect_exit_node")

Device_disconnect_exit_nodes ==
    IF rt(running) = "Ok" THEN disconnect_exit_nodes("none")
    ELSE NotStarted("disconnect_exit_nodes")

Device_enable_magic_dns(upstream) ==
    IF rt(running) = "Ok" THEN start_dns(upstream, "none")
    ELSE NotStarted("start_dns")

Device_disable_magic_dns ==
    IF rt(running) = "Ok" THEN stop_dns
    ELSE NotStarted("stop_dns")

\* every call Device hands to the Runtime task
DeviceApi ==
    \/ Device_get_private_key
    \/ Device_notify_network_change
    \/ Device_external_nodes
    \/ \E key \in SecretKeys : Device_set_private_key(key)
    \/ \E config \in {None} \cup {Some(c) : c \in KeyConfigs} : Device_set_config(config)
    \/ \E node \in KeyNodes : Device_connect_exit_node(node)
    \/ \E node \in KeyNodes : Device_disconnect_exit_node(node.public_key)
    \/ Device_disconnect_exit_nodes
    \/ \E upstream \in UpstreamServers : Device_enable_magic_dns(upstream)
    \/ Device_disable_magic_dns

\* events inside the Runtime task: there are none without a Runtime
listen_port_assigned == running /\ assign_listen_port
polling_interval_tick == running /\ tick

\* ---- the device life cycle runs: start, API calls, stop, start again
NextDevice ==
    \/ \E key \in SecretKeys, fault \in StartFaults :
           Device_start(key, Features_default, FALSE, fault)
    \/ \E held \in SUBSET Entities : Device_stop(held)
    \/ DeviceApi
    \/ listen_port_assigned
    \/ polling_interval_tick

SpecDevice == InitDevice /\ [][NextDevice]_vars

\* ---------------------------------------------------------- telio-wg uapi
\* An IpNetwork is <<address, prefix>> over AddrBits-bit addresses; durations
\* are in milliseconds; a frame is a sequence of lines <<key, value>>, the
\* empty line being <<>>.
AddrBits == 2

\* Peer::is_connected
REJECT_AFTER_TIME == 180000
REKEY_TIMEOUT_JITTER == 334

\* the number of values of a u16
U16 == 65536

\* an u32 cast with `as u16`
as_u16_lossless(x) == x
as_u16(x) == x % U16

\* IpNetwork::network(): the address with its host bits cleared
network_keeps_host_bits(ip) == ip[1]
network(ip) ==
    LET host == 2 ^ (AddrBits - ip[2])
    IN  (ip[1] \div host) * host

\* IpNetwork::prefix()
prefix(ip) == ip[2]

\* Option::map
map_as_u16(o) == IF is_none(o) THEN None ELSE Some(as_u16(unwrap(o)))

\* impl From<&Peer> for set::Peer
set_Peer(item) ==
    [public_key |-> item.public_key,
     endpoint |-> item.endpoint,
     persistent_keepalive_interval |-> map_as_u16(item.persistent_keepalive_interval),
     allowed_ips |-> [i \in DOMAIN item.allowed_ips |->
                         [ipaddr |-> network(item.allowed_ips[i]),
                          cidr_mask |-> prefix(item.allowed_ips[i])]]]

\* BTreeMap::values(): the values in the order of their keys
RECURSIVE values(_)
values(m) ==
    IF DOMAIN m = {} THEN <<>>
    ELSE LET k == CHOOSE x \in DOMAIN m : \A y \in DOMAIN m : x <= y
         IN  <<m[k]>> \o values([y \in DOMAIN m \ {k} |-> m[y]])

\* impl From<Interface> for set::Device
set_Device(item) ==
    [private_key |-> item.private_key,
     listen_port |-> item.listen_port,
     fwmark |-> IF item.fwmark = 0 THEN None ELSE Some(item.fwmark),
     peers |-> LET vs == values(item.peers)
               IN  [i \in DOMAIN vs |-> set_Peer(vs[i])]]

\* one `key=value` line for a field that is present, none for an absent one
opt_line(key, tag, o) ==
    IF is_none(o) THEN <<>> ELSE << <<key, <<tag, unwrap(o)>> >> >>

RECURSIVE allowed_ip_lines(_)
allowed_ip_lines(ips) ==
    IF ips = <<>> THEN <<>>
    ELSE << <<"allowed_ip", <<"net", Head(ips).ipaddr, Head(ips).cidr_mask>> >> >>
         \o allowed_ip_lines(Tail(ips))

\* Display of set::Peer: public_key, then the attributes that are set
set_Peer_fmt(p) ==
    << <<"public_key", <<"hex", p.public_key>> >> >>
    \o opt_line("endpoint", "addr", p.endpoint)
    \o opt_line("persistent_keepalive_interval", "dec", p.persistent_keepalive_interval)
    \o allowed_ip_lines(p.allowed_ips)

RECURSIVE set_Peers_fmt(_)
set_Peers_fmt(ps) ==
    IF ps = <<>> THEN <<>> ELSE set_Peer_fmt(Head(ps)) \o set_Peers_fmt(Tail(ps))

\* Display of set::Device: the interface keys that are set, then the peers
set_Device_fmt(d) ==
    opt_line("private_key", "hex", d.private_key)
    \o opt_line("listen_port", "dec", d.listen_port)
    \o opt_line("fwmark", "dec", d.fwmark)
    \o set_Peers_fmt(d.peers)

\* impl Display for Cmd, Cmd::Set: "set=1", the device, an empty line
Cmd_fmt(device) ==
    << <<"set", <<"dec", 1>> >> >> \o set_Device_fmt(device) \o << <<>> >>

\* str::parse of a value written in the form tag
parse_as(tag, val) == CASE val[1] = tag -> val[2]

\* Peer::default() and Interface::default()
Peer_default ==
    [public_key |-> 0, endpoint |-> None, persistent_keepalive_interval |-> None,
     allowed_ips |-> <<>>, rx_bytes |-> None, tx_bytes |-> None,
     time_since_last_handshake |-> None]

Interface_default ==
    [private_key |-> None, listen_port |-> None, fwmark |-> 0, peers |-> <<>>]

\* impl From<set::Peer> for Peer: the statistics take their defaults
Peer_from_set_Peer(item) ==
    [public_key |-> item.public_key,
     endpoint |-> item.endpoint,
     persistent_keepalive_interval |-> item.persistent_keepalive_interval,
     allowed_ips |-> [i \in DOMAIN item.allowed_ips |->
                         <<item.allowed_ips[i].ipaddr, item.allowed_ips[i].cidr_mask>>],
     rx_bytes |-> Peer_default.rx_bytes,
     tx_bytes |-> Peer_default.tx_bytes,
     time_since_last_handshake |-> Peer_default.time_since_last_handshake]

\* impl From<set::Device> for Interface
Interface_from_set_Device(item) ==
    [private_key |-> item.private_key,
     listen_port |-> item.listen_port,
     fwmark |-> IF is_none(item.fwmark) THEN 0 ELSE unwrap(item.fwmark),
     peers |-> [pk \in {item.peers[i].public_key : i \in DOMAIN item.peers} |->
                   Peer_from_set_Peer(
                       item.peers[CHOOSE i \in DOMAIN item.peers :
                                      /\ item.peers[i].public_key = pk
                                      /\ \A j \in DOMAIN item.peers :
                                             item.peers[j].public_key = pk => j <= i])]]

\* parse_peer(public_key, reader), reading from line i on: the peer, the next
\* peer's public key if one follows, an errno if one ends the frame, and the
\* first line not consumed.  (No last_handshake_time_* line occurs in a set
\* frame: last_handshake_time stays None and so does time_since_last_handshake.)
RECURSIVE parse_peer(_, _, _)
parse_peer(lines, i, peer) ==
    IF i > Len(lines)
    THEN [peer |-> peer, next |-> None, err |-> None, i |-> i]
    ELSE IF lines[i] = <<>>
    THEN [peer |-> peer, next |-> None, err |-> None, i |-> i + 1]
    ELSE LET key == lines[i][1]
             val == lines[i][2]
         IN  CASE key = "endpoint" ->
                     parse_peer(lines, i + 1,
                                [peer EXCEPT !.endpoint = Some(parse_as("addr", val))])
               [] key = "persistent_keepalive_interval" ->
                     parse_peer(lines, i + 1,
                                [peer EXCEPT !.persistent_keepalive_interval =
                                                 Some(parse_as("dec", val))])
               [] key = "allowed_ip" ->
                     parse_peer(lines, i + 1,
                                [peer EXCEPT !.allowed_ips =
                                                 Append(@, <<parse_as("net", val), val[3]>>)])
               [] key = "rx_bytes" ->
                     parse_peer(lines, i + 1,
                                [peer EXCEPT !.rx_bytes = Some(parse_as("dec", val))])
               [] key = "tx_bytes" ->
                     parse_peer(lines, i + 1,
                                [peer EXCEPT !.tx_bytes = Some(parse_as("dec", val))])
               [] key = "public_key" ->
                     [peer |-> peer, next |-> Some(parse_as("hex", val)),
                      err |-> None, i |-> i + 1]
               [] key = "errno" ->
                     [peer |-> peer, next |-> None,
                      err |-> Some(parse_as("dec", val)), i |-> i + 1]
               [] OTHER -> parse_peer(lines, i + 1, peer)

\* response_from_read, "public_key": the loop over the peers that follow
RECURSIVE parse_peers(_, _, _, _)
parse_peers(lines, i, public_key, peers) ==
    LET r == parse_peer(lines, i, [Peer_default EXCEPT !.public_key = public_key])
        inserted == (r.peer.public_key :> r.peer) @@ peers
    IN  IF is_some(r.err)
        THEN [peers |-> inserted, errno |-> r.err, i |-> r.i]
        ELSE IF is_some(r.next)
        THEN parse_peers(lines, r.i, unwrap(r.next), inserted)
        ELSE [peers |-> inserted, errno |-> None, i |-> r.i]

\* Err(Error::ParsingError(what, ..))
ParsingError(what) == [error |-> what]

\* "listen_port": the port is stored if it is not 0
set_listen_port_unchecked(interface, port) ==
    [interface EXCEPT !.listen_port = Some(port)]
set_listen_port(interface, port) ==
    IF port > 0 THEN [interface EXCEPT !.listen_port = Some(port)] ELSE interface

\* response_from_read(reader), reading from line i on
RECURSIVE response_from_read_loop(_, _, _, _, _)
response_from_read_loop(lines, i, interface, inited, errno) ==
    IF i > Len(lines) \/ lines[i] = <<>>
    THEN [errno |-> errno, interface |-> IF inited THEN Some(interface) ELSE None]
    ELSE LET key == lines[i][1]
             val == lines[i][2]
         IN  CASE key = "private_key" ->
                     response_from_read_loop(lines, i + 1,
                         [interface EXCEPT !.private_key = Some(parse_as("hex", val))],
                         TRUE, errno)
               [] key = "listen_port" ->
                     IF parse_as("dec", val) >= U16
                     THEN ParsingError("listen_port")
                     ELSE response_from_read_loop(lines, i + 1,
                              set_listen_port(interface, parse_as("dec", val)),
                              TRUE, errno)
               [] key = "fwmark" ->
                     response_from_read_loop(lines, i + 1,
                         [interface EXCEPT !.fwmark = parse_as("dec", val)],
                         TRUE, errno)
               [] key = "public_key" ->
                     LET r == parse_peers(lines, i + 1, parse_as("hex", val),
                                          interface.peers)
                     IN  response_from_read_loop(lines, r.i,
                             [interface EXCEPT !.peers = r.peers], TRUE,
                             IF is_some(r.errno) THEN unwrap(r.errno) ELSE errno)
               [] key = "errno" ->
                     response_from_read_loop(lines, i + 1, interface, inited,
                                             parse_as("dec", val))
               [] OTHER ->
                     response_from_read_loop(lines, i + 1, interface, inited, errno)

response_from_read(lines) ==
    response_from_read_loop(lines, 1, Interface_default, FALSE, 0)

\* Peer::is_connected
is_connected_within_reject_after_time(peer) ==
    /\ is_some(peer.time_since_last_handshake)
    /\ unwrap(peer.time_since_last_handshake) < REJECT_AFTER_TIME
is_connected(peer) ==
    /\ is_some(peer.time_since_last_handshake)
    /\ unwrap(peer.time_since_last_handshake) < REJECT_AFTER_TIME + REKEY_TIMEOUT_JITTER

\* Peer::state
state(peer) == IF is_connected(peer) THEN "Connected" ELSE "Connecting"

\* ---- the uapi runs: an Interface is converted, written, read back; its
\* peers are asked for their state
Keepalives == {None, Some(25), Some(U16 + 25)}

\* a host address; a network written with host bits set, then a host address
AllowedIpLists == {<<>>, << <<2, AddrBits>> >>, << <<3, 1>>, <<2, AddrBits>> >>}

\* rx_bytes and tx_bytes: unset as for a set, or as read from the driver
Transfers == {<<None, None>>, <<Some(7), Some(9)>>}

HandshakeAges ==
    {None, Some(0), Some(REJECT_AFTER_TIME - 1),
     Some(REJECT_AFTER_TIME + REKEY_TIMEOUT_JITTER - 1),
     Some(REJECT_AFTER_TIME + REKEY_TIMEOUT_JITTER),
     Some(REJECT_AFTER_TIME + REKEY_TIMEOUT_JITTER + 1)}

UapiPeers(pk) ==
    {[public_key |-> pk, endpoint |-> e, persistent_keepalive_interval |-> k,
      allowed_ips |-> a, rx_bytes |-> t[1], tx_bytes |-> t[2],
      time_since_last_handshake |-> h] :
        e \in {None} \cup {Some(x) : x \in VpnEndpoints}, k \in Keepalives,
        a \in AllowedIpLists, t \in Transfers, h \in HandshakeAges}

\* no peer, one peer, or that peer and a second one as sent in a set
PeerMaps ==
    {<<>>}
    \cup {201 :> p : p \in UapiPeers(201)}
    \cup {(201 :> p) @@ (202 :> [Peer_default EXCEPT !.public_key = 202,
                                                      !.allowed_ips = << <<1, AddrBits>> >>]) :
              p \in UapiPeers(201)}

Interfaces ==
    [private_key : {None, Some(1)},
     listen_port : {None, Some(0), Some(ListenPort)},
     fwmark : {0, 11},
     peers : PeerMaps]

\* an Interface is given; nothing has been converted yet
InitUapi ==
    /\ DeviceNew
    /\ validate_keys
    /\ uapi_arg \in {Some(item) : item \in Interfaces}
    /\ uapi_ret = None

\* the Interface is sent as a set command and the frame is parsed
uapi_set_roundtrip ==
    /\ is_none(uapi_ret)
    /\ uapi_ret' = Some([fn |-> "response_from_read",
                         ret |-> response_from_read(Cmd_fmt(set_Device(unwrap(uapi_arg))))])
    /\ UNCHANGED <<validate_keys, runtime_vars, last, running, leaked, entities,
                   wg_stun_server, task,
                   node_event, event_rx, uapi_arg>>

\* the Interface is converted to a set::Device and back
uapi_set_into ==
    /\ is_none(uapi_ret)
    /\ uapi_ret' = Some([fn |-> "from_set_Device",
                         ret |-> Interface_from_set_Device(set_Device(unwrap(uapi_arg)))])
    /\ UNCHANGED <<validate_keys, runtime_vars, last, running, leaked, entities,
                   wg_stun_server, task,
                   node_event, event_rx, uapi_arg>>

\* the peer pk of the Interface is asked whether it is connected
uapi_peer_state(pk) ==
    /\ is_none(uapi_ret)
    /\ pk \in DOMAIN unwrap(uapi_arg).peers
    /\ uapi_ret' = Some([fn |-> "state",
                         peer |-> unwrap(uapi_arg).peers[pk],
                         ret |-> [is_connected |-> is_connected(unwrap(uapi_arg).peers[pk]),
                                  state |-> state(unwrap(uapi_arg).peers[pk])]])
    /\ UNCHANGED <<validate_keys, runtime_vars, last, running, leaked, entities,
                   wg_stun_server, task,
                   node_event, event_rx, uapi_arg>>

NextUapi ==
    \/ uapi_set_roundtrip
    \/ uapi_set_into
    \/ \E pk \in MeshKeys : uapi_peer_state(pk)

SpecUapi == InitUapi /\ [][NextUapi]_vars

\* ------------------------------------------------------- node reporting
\* A live peer as the driver reports it: its key, its current endpoint, its
\* allowed IPs and the age of its last handshake.
LivePeer(pk, endpoint, allowed_ips, age) ==
    [public_key |-> pk, endpoint |-> endpoint, allowed_ips |-> allowed_ips,
     time_since_last_handshake |-> age]

\* the UDP proxy's endpoint map: the local endpoint of every configured peer
get_endpoint_map(pp) == [pk \in pp |-> ProxyEndpoint(pk)]

\* get_endpoint_map().await.unwrap_or_else(.. Default::default())
endpoint_map_or_default(pp, fault) ==
    IF fault = "proxy" THEN <<>> ELSE get_endpoint_map(pp)

\* "Resolve what type of path is used"
relay_whenever_proxied(map, peer) ==
    IF peer.public_key \in DOMAIN map THEN "Relay" ELSE "Direct"
path_type(map, peer) ==
    IF is_none(peer.endpoint) THEN "Direct"
    ELSE IF peer.public_key \notin DOMAIN map THEN "Direct"
    ELSE IF map[peer.public_key] = unwrap(peer.endpoint) THEN "Relay"
    ELSE "Direct"

\* the peer of a config with the given public key, if there is one
config_peer_never_found(mc, pk) == None
config_peer(mc, pk) ==
    LET found == {p \in peers_of(mc) : p.public_key = pk}
    IN  IF found = {} THEN None ELSE Some(CHOOSE p \in found : TRUE)

\* the addresses reported for an exit node that is no meshnet peer
ExitNodeIps == {"10.5.0.1", "100.64.0.1"}

\* Runtime::peer_to_node: the Node to report for a live peer, None for a peer
\* that is neither a meshnet peer nor the (last) exit node
peer_to_node(map, peer, st) ==
    LET exit == {n \in (IF is_some(exit_node) THEN exit_node ELSE last_exit_node) :
                    n.public_key = peer.public_key}
        meshnet_peer == IF is_some(config_peer(meshnet_config, peer.public_key))
                        THEN config_peer(meshnet_config, peer.public_key)
                        ELSE config_peer(old_meshnet_config, peer.public_key)
        reported == IF is_some(st) THEN unwrap(st) ELSE state(peer)
    IN  IF is_some(meshnet_peer)
        THEN Some([public_key |-> unwrap(meshnet_peer).public_key,
                   state |-> reported,
                   is_exit |-> \E n \in exit_node : n.public_key = peer.public_key,
                   is_vpn |-> FALSE,
                   ip_addresses |-> IF is_some(unwrap(meshnet_peer).ip_addresses)
                                    THEN unwrap(unwrap(meshnet_peer).ip_addresses)
                                    ELSE {},
                   allowed_ips |-> peer.allowed_ips,
                   endpoint |-> peer.endpoint,
                   path |-> path_type(map, peer)])
        ELSE IF is_some(exit)
        THEN Some([public_key |-> unwrap(exit).public_key,
                   state |-> reported,
                   is_exit |-> TRUE,
                   is_vpn |-> is_some(unwrap(exit).endpoint),
                   ip_addresses |-> ExitNodeIps,
                   allowed_ips |-> peer.allowed_ips,
                   endpoint |-> peer.endpoint,
                   path |-> path_type(map, peer)])
        ELSE None

\* a report is done: no UAPI set; the endpoint map it was made with and the
\* driver event it answers, if any
Reported(op, map, event) ==
    last' = [op |-> op, result |-> "Ok", writes |-> 0, endpoint_map |-> map,
             event |-> event]

\* wait_with_update, wg_events branch: the driver reports the state of a peer;
\* the Node, if there is one, is published; nothing is consolidated
wg_event(peer, st, fault) ==
    /\ node_event' = peer_to_node(endpoint_map_or_default(proxy_peers, fault), peer,
                                  Some(st))
    /\ Reported("wg_event", endpoint_map_or_default(proxy_peers, fault),
                Some([peer |-> peer, state |-> st]))
    /\ UNCHANGED <<validate_keys, runtime_vars, running, leaked, entities,
                   wg_stun_server, task, event_rx, uapi_arg,
                   uapi_ret>>

\* Runtime::external_nodes: a Node for every peer of the live interface
external_nodes(age, fault) ==
    /\ node_event' =
           UNION {peer_to_node(endpoint_map_or_default(proxy_peers, fault),
                               LivePeer(pk, wg.peers[pk].endpoint,
                                        wg.peers[pk].allowed_ips, age),
                               None) : pk \in DOMAIN wg.peers}
    /\ Reported("external_nodes", endpoint_map_or_default(proxy_peers, fault), None)
    /\ UNCHANGED <<validate_keys, runtime_vars, running, leaked, entities,
                   wg_stun_server, task, event_rx, uapi_arg,
                   uapi_ret>>

\* ---- the reporting runs: one key, a config of two peers, a mesh and a VPN
\* exit; the driver reports any peer at any endpoint.  The private key, which
\* peer_to_node does not read, stays as it is; the listen port is assigned.
EventConfigs == {c \in ExitConfigs :
                    \E k1 \in MeshKeyOne, k2 \in MeshKeyTwo :
                        c.peers = Some({MkPeer(k1, 1), MkPeer(k2, 2)})}
EventNodes == {n \in ExitNodes : /\ n.allowed_ips = None
                                 /\ n.public_key \notin MeshKeyTwo
                                 /\ n.public_key \in VpnKeys => is_some(n.endpoint)}
EventAges == {None, Some(0)}
EventFaults == {"none", "proxy"}
PeerStates == {"Connected"}
LiveEndpoints(pk) == {None, Some(ProxyEndpoint(pk))} \cup {Some(e) : e \in VpnEndpoints}
\* the Runtime has started and the driver has its listen port
InitEvents ==
    /\ validate_keys = TRUE
    /\ private_key = 1
    /\ meshnet_config = None
    /\ old_meshnet_config = None
    /\ exit_node = None
    /\ last_exit_node = None
    /\ upstream_servers = None
    /\ dns_resolver = FALSE
    /\ should_bind = FALSE
    /\ proxy_peers = {}
    /\ wg = [private_key |-> Some(private_key), listen_port |-> Some(ListenPort),
             peers |-> <<>>]
    /\ last = [op |-> "assign_listen_port", result |-> "Ok", writes |-> 0]
    /\ running = TRUE
    /\ leaked = {}
    /\ entities = Some(Runtime_entities(Features_default, FALSE))
    /\ node_event = None
    /\ event_rx = channel
    /\ wg_stun_server = None
    /\ task = Idle
    /\ uapi_arg = None
    /\ uapi_ret = None

NextEvents ==
    \/ \E config \in {None} \cup {Some(c) : c \in EventConfigs} : set_config(config, "none")
    \/ \E node \in EventNodes : connect_exit_node(node, "none")
    \/ \E node \in EventNodes : disconnect_exit_node(node.public_key, "none")
    \/ disconnect_exit_nodes("none")
    \/ tick
    \/ \E pk \in MeshKeys \cup VpnKeys, st \in PeerStates, fault \in EventFaults :
           \E endpoint \in LiveEndpoints(pk) :
               wg_event(LivePeer(pk, endpoint,
                                 IF pk \in DOMAIN wg.peers
                                 THEN wg.peers[pk].allowed_ips ELSE {},
                                 None),
                        st, fault)
    \/ \E age \in EventAges, fault \in EventFaults : external_nodes(age, fault)

SpecEvents == InitEvents /\ [][NextEvents]_vars

\* ---- the response runs: a frame of the driver is parsed
\* a driver's listen_port values: none, the smallest, a usual one, the largest
\* an u16 holds, and one beyond
ResponsePorts == {0, 1, ListenPort, U16 - 1, U16}

\* the peer section of a response: none, or one peer
ResponsePeerLines ==
    {<<>>,
     << <<"public_key", <<"hex", 201>> >>, <<"endpoint", <<"addr", 900>> >>,
        <<"rx_bytes", <<"dec", 7>> >> >>}

\* get responses: interface keys, peers, errno, the empty line
ResponseFrames ==
    {opt_line("private_key", "hex", k) \o opt_line("listen_port", "dec", port)
     \o opt_line("fwmark", "dec", f) \o peer_lines \o opt_line("errno", "dec", e)
     \o << <<>> >> :
        k \in {None, Some(1)},
        port \in {None} \cup {Some(x) : x \in ResponsePorts},
        f \in {None, Some(11)},
        peer_lines \in ResponsePeerLines,
        e \in {None, Some(0), Some(5)}}

InitResponse ==
    /\ DeviceNew
    /\ validate_keys
    /\ uapi_arg \in {Some(frame) : frame \in ResponseFrames}
    /\ uapi_ret = None

\* response_from_str(string)
uapi_response_from_str ==
    /\ is_none(uapi_ret)
    /\ uapi_ret' = Some([fn |-> "response_from_str",
                         ret |-> response_from_read(unwrap(uapi_arg))])
    /\ UNCHANGED <<validate_keys, runtime_vars, last, running, leaked, entities,
                   wg_stun_server, task,
                   node_event, event_rx, uapi_arg>>

NextResponse == uapi_response_from_str

SpecResponse == InitResponse /\ [][NextResponse]_vars

\* ---------------------------------------------------------- DNS records
\* telio_model::config::PeerBase, reduced to hostname and ip_addresses (a Vec)
MaxDnsPeers == 2
Hostnames == {"alpha", "beta"}
IpLists == {None, Some(<<>>), Some(<<1>>), Some(<<1, 2>>)}
DnsNodes(names) == [hostname : names, ip_addresses : IpLists]

\* Config, reduced to this and peers (an Option<Vec<Peer>>)
DnsConfigs ==
    [this : DnsNodes({"this", "alpha"}),
     peers : {None} \cup {Some(ps) : ps \in UNION {[1 .. n -> DnsNodes(Hostnames)] :
                                                    n \in 0 .. MaxDnsPeers}}]

\* .collect() into Records, a map: a later pair replaces an earlier one of
\* the same hostname
RECURSIVE collect_keeping_first(_)
collect_keeping_first(pairs) ==
    IF pairs = <<>> THEN <<>>
    ELSE (Head(pairs)[1] :> Head(pairs)[2]) @@ collect_keeping_first(Tail(pairs))
RECURSIVE collect(_)
collect(pairs) ==
    IF pairs = <<>> THEN <<>>
    ELSE LET n == Len(pairs)
         IN  (pairs[n][1] :> pairs[n][2]) @@ collect(SubSeq(pairs, 1, n - 1))

\* .filter_map(|v| v.ip_addresses.as_ref().map(|ips| (v.hostname, ips)))
RECURSIVE filter_map_ip_addresses(_)
filter_map_ip_addresses(nodes) ==
    IF nodes = <<>> THEN <<>>
    ELSE (IF is_some(Head(nodes).ip_addresses)
          THEN << <<Head(nodes).hostname, unwrap(Head(nodes).ip_addresses)>> >>
          ELSE <<>>)
         \o filter_map_ip_addresses(Tail(nodes))

\* the nodes of a config: its peers, then the local node
peers_without_this(cfg) == IF is_none(cfg.peers) THEN <<>> ELSE unwrap(cfg.peers)
peers_and_this(cfg) ==
    (IF is_none(cfg.peers) THEN <<>> ELSE unwrap(cfg.peers)) \o <<cfg.this>>

\* RequestedState::collect_dns_records
collect_dns_records(mc) ==
    collect(filter_map_ip_addresses(IF is_none(mc) THEN <<>>
                                    ELSE peers_and_this(unwrap(mc))))

\* ---- the record runs: a requested meshnet config, or none, is given
InitRecords ==
    /\ DeviceNew
    /\ validate_keys
    /\ uapi_arg \in {Some([meshnet_config |-> mc]) :
                        mc \in {None} \cup {Some(cfg) : cfg \in DnsConfigs}}
    /\ uapi_ret = None

records_collected ==
    /\ is_none(uapi_ret)
    /\ uapi_ret' = Some([fn |-> "collect_dns_records",
                         ret |-> collect_dns_records(unwrap(uapi_arg).meshnet_config)])
    /\ UNCHANGED <<validate_keys, runtime_vars, last, running, leaked, entities,
                   wg_stun_server, task,
                   node_event, event_rx, uapi_arg>>

NextRecords == records_collected

SpecRecords == InitRecords /\ [][NextRecords]_vars

\* ---- the start and stop runs: every feature set, a start that fails, a stop
\* that finds one component still shared
Components ==
    {"Multiplexer", "UdpProxy", "Derp", "WireguardInterface", "Nurse",
     "LocalInterfacesEndpointProvider", "StunEndpointProvider", "UpnpEndpointProvider",
     "CrossPingCheck", "UpgradeSync", "SessionKeeper"}
LifecycleFaults == {"none", "adapter", "direct"}
HeldSets == {{}} \cup {{c} : c \in Components}

\* the host calls start and stop in turn; a call that does not return is
\* its last
NextLifecycle ==
    \/ \E features \in FeatureSets, lana \in BOOLEAN, fault \in LifecycleFaults :
           last.result # "Blocked" /\ Device_start(1, features, lana, fault)
    \/ \E held \in HeldSets : last.result # "Blocked" /\ Device_stop(held)
    \/ \E hung \in Components : last.result # "Blocked" /\ Device_stop_blocked({}, hung)

SpecLifecycle == InitDevice /\ [][NextLifecycle]_vars

\* ------------------------------------------ wait_with_update: the select
\* the branches of the select besides `update`
Stimuli == {"wg_endpoint_publish", "wg_event", "derp_event", "endpoint_upgrade",
            "stun_server", "tick"}

\* what the stun_server_subscriber delivers: Option<StunServer>
StunEvents == {None} \cup {Some(x) : x \in StunServers}

\* the branches whose handler calls wg_controller::consolidate_wg_state
consolidates_on_every_stimulus(stimulus) == TRUE
consolidates_on_events_only(stimulus) ==
    stimulus \in {"wg_endpoint_publish", "endpoint_upgrade", "stun_server"}
consolidates(stimulus) ==
    stimulus \in {"wg_endpoint_publish", "endpoint_upgrade", "stun_server", "tick"}

\* the select is polled by the Runtime task alone, between two handlers
select_while_handling(t) == TRUE
select_ready(t) == t.pc = "select"

\* self.requested_state.wg_stun_server = wg_stun_server, in the
\* stun_server_subscriber branch alone
stun_server_never_stored(stimulus, stun, current) == current
stun_server_after(stimulus, stun, current) ==
    IF stimulus = "stun_server" THEN stun ELSE current

\* .unwrap_or_else(|e| telio_log_warn!(..)); Ok(()): what a handler returns
\* whatever consolidate_wg_state returned
propagated(result) == result
logged_and_ignored(result) == "Ok"

\* the driver takes a UAPI set, or rejects it
DriverFaults == {"none", "driver"}

\* a branch of the select is taken. The handlers of wg_event and derp_event
\* publish to the host and return Ok(()); the others go on to consolidate
recv(stimulus, stun) ==
    /\ running
    /\ select_ready(task)
    /\ wg_stun_server' = stun_server_after(stimulus, stun, wg_stun_server)
    /\ IF consolidates(stimulus)
       THEN /\ task' = [task EXCEPT !.pc = "read", !.stimulus = stimulus,
                                    !.consolidations = 0]
            /\ UNCHANGED last
       ELSE /\ UNCHANGED task
            /\ last' = [op |-> stimulus, result |-> "Ok", writes |-> 0,
                        consolidations |-> 0, consolidation |-> "none"]
    /\ UNCHANGED <<validate_keys, runtime_vars, running, leaked, entities,
                   node_event, event_rx, uapi_arg, uapi_ret>>

\* consolidate_wg_state is entered: it reads the live interface
consolidate_read ==
    /\ running
    /\ task.pc = "read"
    /\ task' = [task EXCEPT !.pc = "write",
                            !.snapshot = Some([private_key |-> wg.private_key,
                                               peers |-> wg.peers]),
                            !.consolidations = @ + 1,
                            !.in_progress = @ + 1]
    /\ UNCHANGED <<validate_keys, runtime_vars, last, running, leaked, entities,
                   wg_stun_server, node_event, event_rx, uapi_arg, uapi_ret>>

\* consolidate_wg_state writes the difference between the desired interface
\* and the one it read, and the handler returns:
\* .unwrap_or_else(|e| telio_log_warn!(..)); Ok(())
consolidate_write(fault) ==
    /\ running
    /\ task.pc = "write"
    /\ LET snap == unwrap(task.snapshot)
           c == consolidate_wg_state(RS(private_key, meshnet_config, exit_node),
                                     proxy_peers,
                                     [wg EXCEPT !.private_key = snap.private_key,
                                                !.peers = snap.peers])
           rejected == fault = "driver" /\ c.writes > 0
           failure == IF rejected THEN "Adapter" ELSE c.result
       IN  /\ wg' = IF rejected THEN wg
                    ELSE [wg EXCEPT !.private_key = c.wg.private_key,
                                    !.peers = c.wg.peers]
           /\ last' = [op |-> task.stimulus, result |-> logged_and_ignored(failure),
                       writes |-> IF rejected THEN 1 ELSE c.writes,
                       consolidations |-> task.consolidations,
                       consolidation |-> failure]
    /\ task' = [task EXCEPT !.pc = "select", !.stimulus = "none",
                            !.consolidations = 0, !.snapshot = None,
                            !.in_progress = @ - 1]
    /\ UNCHANGED <<validate_keys, private_key, meshnet_config, old_meshnet_config,
                   exit_node, last_exit_node, upstream_servers, dns_resolver,
                   should_bind, proxy_peers, running, leaked, entities,
                   wg_stun_server, node_event, event_rx, uapi_arg, uapi_ret>>

\* update = update => return update(self).await: an external action, run by
\* the Runtime task between two handlers
update(configs, nodes) ==
    \/ \E config \in {None} \cup {Some(c) : c \in configs} :
           select_ready(task) /\ set_config(config, "none")
    \/ \E node \in nodes : select_ready(task) /\ connect_exit_node(node, "none")
    \/ select_ready(task) /\ disconnect_exit_nodes("none")

\* ---- the event-loop runs
LoopConfigs ==
    {c \in Configs : /\ c.this_public_key = public(1)
                     /\ c.peers \in {Some({MkPeer(k, 1)}) : k \in MeshKeyOne}
                           \cup {Some({MkPeer(k1, 1), MkPeer(k2, 1)}) :
                                     k1 \in MeshKeyOne, k2 \in MeshKeyTwo}}
LoopNodes == {n \in ExitNodes : /\ n.public_key \in VpnKeys
                                /\ n.allowed_ips = None /\ is_some(n.endpoint)}

NextLoop ==
    \/ assign_listen_port
    \/ \E stimulus \in Stimuli, stun \in StunEvents : recv(stimulus, stun)
    \/ consolidate_read
    \/ \E fault \in DriverFaults : consolidate_write(fault)
    \/ update(LoopConfigs, LoopNodes)

SpecLoop == InitExit /\ [][NextLoop]_vars

\* ---- the event-loop runs under fair scheduling: the interval of the tick
\* branch stays ready until the select takes it, and a handler that was
\* entered runs on to its end
SpecLoopFair ==
    /\ SpecLoop
    /\ SF_vars(\E stun \in StunEvents : recv("tick", stun))
    /\ WF_vars(consolidate_read)
    /\ WF_vars(\E fault \in DriverFaults : consolidate_write(fault))

\* --------------------------------------------------- the DNS mutex: steps
\* What an external action does with entities.dns (Arc<Mutex<DNS>>), as the
\* steps of its body: "lock" and "unlock" (the guard goes out of scope), "try"
\* (a `?` or early error that may return), "return" (a return taken on this
\* path) and "consolidate" (wg_controller::consolidate_wg_state(..).await?)

\* upsert_dns_peers: the guard is a temporary of the if-let, dropped after it
upsert_dns_peers_steps(resolver) ==
    <<"lock">> \o (IF resolver THEN <<"try">> ELSE <<>>) \o <<"unlock">>

\* a start_dns whose guard lives to the end of the function
start_dns_steps_unscoped(resolver) ==
    <<"lock", "try", "try", "try">> \o (IF resolver THEN <<>> ELSE <<"try">>)
    \o upsert_dns_peers_steps(TRUE) \o <<"consolidate", "unlock">>

\* start_dns: the block `{ let mut dns_entity = ..lock().await; .. }`, then
\* upsert_dns_peers, then the consolidation
start_dns_steps(resolver) ==
    <<"lock", "try", "try", "try">> \o (IF resolver THEN <<>> ELSE <<"try">>)
    \o <<"unlock">> \o upsert_dns_peers_steps(TRUE) \o <<"consolidate">>

\* stop_dns: if let Some(dns) = ..lock().await.resolver.take() { .. };
stop_dns_steps(resolver) == <<"lock", "unlock", "consolidate">>

\* set_private_key: the guard is a temporary of the if condition
set_private_key_steps(resolver) ==
    <<"try", "lock", "unlock">>
    \o (IF resolver THEN <<"return">> ELSE <<"consolidate">>)

\* set_config: both arms call upsert_dns_peers once
set_config_steps(resolver) ==
    <<"try", "try", "try", "try", "try">> \o upsert_dns_peers_steps(resolver)
    \o <<"try", "consolidate">>

\* connect_exit_node: the lock is taken for a meshnet exit node only
connect_exit_node_steps(resolver, is_meshnet) ==
    (IF is_meshnet
     THEN <<"lock">> \o (IF resolver THEN <<"try">> ELSE <<>>) \o <<"unlock">>
     ELSE <<"try">>)
    \o <<"consolidate">>

\* disconnect_exit_nodes: nothing is done without a requested exit node
disconnect_exit_nodes_steps(resolver, has_exit, has_upstream) ==
    IF has_exit
    THEN <<"lock">> \o (IF resolver /\ has_upstream THEN <<"try">> ELSE <<>>)
         \o <<"unlock", "consolidate">>
    ELSE <<>>

\* the bodies that lock the DNS mutex or consolidate, over the conditions
\* their branches test
DnsMutexBodies ==
    {[op |-> "start_dns", steps |-> start_dns_steps(r)] : r \in BOOLEAN}
    \cup {[op |-> "stop_dns", steps |-> stop_dns_steps(r)] : r \in BOOLEAN}
    \cup {[op |-> "set_private_key", steps |-> set_private_key_steps(r)] : r \in BOOLEAN}
    \cup {[op |-> "set_config", steps |-> set_config_steps(r)] : r \in BOOLEAN}
    \cup {[op |-> "connect_exit_node", steps |-> connect_exit_node_steps(r, m)] :
              r \in BOOLEAN, m \in BOOLEAN}
    \cup {[op |-> "disconnect_exit_nodes",
           steps |-> disconnect_exit_nodes_steps(r, e, u)] :
              r \in BOOLEAN, e \in BOOLEAN, u \in BOOLEAN}

\* the most `?` a body has
MaxTries == 7

\* ---- the mutex runs: a body is executed step by step; its fail-th `?`
\* returns the error (0: none does)
InitLocks ==
    /\ DeviceNew
    /\ validate_keys
    /\ uapi_arg \in {Some([op |-> b.op, steps |-> b.steps, fail |-> f]) :
                        b \in DnsMutexBodies, f \in 0..MaxTries}
    /\ uapi_ret = Some([pc |-> 1, held |-> 0, tries |-> 0, event |-> "call"])

\* one step of the body; a return drops the guard still in scope
dns_mutex_step ==
    /\ is_some(uapi_ret)
    /\ unwrap(uapi_ret).pc <= Len(unwrap(uapi_arg).steps)
    /\ LET a == unwrap(uapi_arg)
           r == unwrap(uapi_ret)
           st == a.steps[r.pc]
           returned == [pc |-> Len(a.steps) + 1, held |-> 0, tries |-> r.tries,
                        event |-> "return"]
       IN  uapi_ret' = Some(
               IF st = "lock"
               THEN [r EXCEPT !.pc = @ + 1, !.held = @ + 1, !.event = "lock"]
               ELSE IF st = "unlock"
               THEN [r EXCEPT !.pc = @ + 1, !.held = @ - 1, !.event = "unlock"]
               ELSE IF st = "return"
               THEN returned
               ELSE IF st = "consolidate"
               THEN [r EXCEPT !.pc = @ + 1, !.tries = @ + 1, !.event = "consolidate"]
               ELSE IF r.tries + 1 = a.fail
               THEN [returned EXCEPT !.tries = @ + 1]
               ELSE [r EXCEPT !.pc = @ + 1, !.tries = @ + 1, !.event = "try"])
    /\ UNCHANGED <<validate_keys, runtime_vars, last, running, leaked, entities,
                   wg_stun_server, task, node_event, event_rx, uapi_arg>>

NextLocks == dns_mutex_step

SpecLocks == InitLocks /\ [][NextLocks]_vars

\* ---------------------------------------------------- the direct paths
\* cross-ping check elects a direct candidate for peer pk, or has no winning
\* pair any more (it publishes None)
cross_ping_check_elects(pk, winner) ==
    /\ running /\ is_some(entities) /\ is_some(unwrap(entities).direct)
    /\ LET d == unwrap(unwrap(entities).direct)
           e == IF winner THEN d.cross_ping_check.elected \cup {pk}
                ELSE d.cross_ping_check.elected \ {pk}
       IN  entities' = Some([unwrap(entities) EXCEPT
                                !.direct = Some([d EXCEPT !.cross_ping_check.elected = e])])
    /\ Done("cross_ping_check", "Ok", 0)
    /\ UNCHANGED <<validate_keys, runtime_vars, running, leaked, wg_stun_server, task,
                   node_event, event_rx, uapi_arg, uapi_ret>>

\* upgrade sync agrees with peer pk on the direct path, or the agreement ends
upgrade_sync_decides(pk, accepted) ==
    /\ running /\ is_some(entities) /\ is_some(unwrap(entities).direct)
    /\ LET d == unwrap(unwrap(entities).direct)
           a == IF accepted THEN d.upgrade_sync.agreed \cup {pk}
                ELSE d.upgrade_sync.agreed \ {pk}
       IN  entities' = Some([unwrap(entities) EXCEPT
                                !.direct = Some([d EXCEPT !.upgrade_sync.agreed = a])])
    /\ Done("upgrade_sync", "Ok", 0)
    /\ UNCHANGED <<validate_keys, runtime_vars, running, leaked, wg_stun_server, task,
                   node_event, event_rx, uapi_arg, uapi_ret>>

\* ---- the direct-path runs: a Runtime with the direct entities and its
\* listen port; one mesh peer; the proxy may fail to be configured
Features_direct == [direct |-> Some([providers |-> None]), nurse |-> FALSE]

DirectConfigs ==
    {c \in Configs : /\ c.this_public_key = public(1)
                     /\ c.peers \in {Some({MkPeer(k, 1)}) : k \in MeshKeyOne}}

InitDirect ==
    /\ validate_keys = TRUE
    /\ private_key = 1
    /\ meshnet_config = None
    /\ old_meshnet_config = None
    /\ exit_node = None
    /\ last_exit_node = None
    /\ upstream_servers = None
    /\ dns_resolver = FALSE
    /\ should_bind = FALSE
    /\ proxy_peers = {}
    /\ wg = [private_key |-> Some(private_key), listen_port |-> Some(ListenPort),
             peers |-> <<>>]
    /\ last = [op |-> "assign_listen_port", result |-> "Ok", writes |-> 0]
    /\ running = TRUE
    /\ leaked = {}
    /\ entities = Some(Runtime_entities(Features_direct, FALSE))
    /\ node_event = None
    /\ event_rx = channel
    /\ wg_stun_server = None
    /\ task = Idle
    /\ uapi_arg = None
    /\ uapi_ret = None

NextDirect ==
    \/ \E config \in {None} \cup {Some(c) : c \in DirectConfigs},
          fault \in {"none", "proxy"} :
           select_ready(task) /\ set_config(config, fault)
    \/ \E pk \in MeshKeyOne, winner \in BOOLEAN : cross_ping_check_elects(pk, winner)
    \/ \E pk \in MeshKeyOne, accepted \in BOOLEAN : upgrade_sync_decides(pk, accepted)
    \/ \E stimulus \in {"wg_endpoint_publish", "endpoint_upgrade"} :
           recv(stimulus, None)
    \/ consolidate_read
    \/ \E fault \in DriverFaults : consolidate_write(fault)

SpecDirect == InitDirect /\ [][NextDirect]_vars

\* ---- the framed runs: a response with an empty line in it and, possibly,
\* lines after that empty line
\* what is read before the empty line: interface keys only, or interface keys
\* and a peer section the empty line then falls into
FrameHeads ==
    {opt_line("private_key", "hex", k) \o opt_line("listen_port", "dec", port)
     \o peer_lines \o opt_line("errno", "dec", e) :
        k \in {None, Some(1)},
        port \in {None, Some(ListenPort)},
        peer_lines \in ResponsePeerLines,
        e \in {None, Some(0)}}

\* what follows the empty line: nothing, interface keys, an errno, a peer
FrameTails ==
    {<<>>,
     << <<"listen_port", <<"dec", 1>> >> >>,
     << <<"fwmark", <<"dec", 11>> >> >>,
     << <<"errno", <<"dec", 5>> >> >>,
     << <<"public_key", <<"hex", 202>> >>, <<"endpoint", <<"addr", 901>> >> >>,
     << <<"private_key", <<"hex", 2>> >>, <<>> >>}

InitFrames ==
    /\ DeviceNew
    /\ validate_keys
    /\ uapi_arg \in {Some(head \o << <<>> >> \o tail) :
                        head \in FrameHeads, tail \in FrameTails}
    /\ uapi_ret = None

NextFrames == uapi_response_from_str

SpecFrames == InitFrames /\ [][NextFrames]_vars

\* ---------------------------------------------------- event delivery
\* events published in a run
MaxEvents == 6
EventKinds == {"Node", "DerpServer"}

\* wait_with_update, the wg_events and derp_events branches, seen from the
\* channel: libtelio_event_publisher.send(Box::new(Event::new::<..>().set(..)))
\* with its result ignored
publish(kind) ==
    /\ running
    /\ event_rx.sent < MaxEvents
    /\ event_rx' = send(event_rx, kind)
    /\ UNCHANGED <<validate_keys, runtime_vars, last, running, leaked, entities,
                   wg_stun_server, task, node_event, uapi_arg, uapi_ret>>

\* the delivery task: while let Ok(event) = event_rx.recv().await { event_cb(event); }
\* An Err ends the loop and the task, and event_rx is dropped with it
deliver ==
    /\ event_rx.receiving
    /\ event_rx.lagged > 0 \/ event_rx.queue # <<>>
    /\ LET r == event_rx_recv(event_rx)
       IN  event_rx' = IF "ok" \in DOMAIN r
                       THEN [event_rx EXCEPT !.queue = Tail(@), !.called = @ + 1]
                       ELSE [event_rx EXCEPT !.queue = <<>>, !.receiving = FALSE]
    /\ UNCHANGED <<validate_keys, runtime_vars, last, running, leaked, entities,
                   wg_stun_server, task, node_event, uapi_arg, uapi_ret>>

NextDelivery ==
    \/ \E kind \in EventKinds : publish(kind)
    \/ deliver

SpecDelivery == InitEvents /\ [][NextDelivery]_vars

\* the delivery task is scheduled whenever an event or an error awaits it
SpecDeliveryFair == SpecDelivery /\ WF_vars(deliver)

\* ================================================================ claims
\* ---- C1 (SpecKeys)
\* C1: with key validation enabled, set_config(Some(cfg)) whose this.public_key
\* is not the public key of the device's private key fails with BadPublicKey,
\* issues no UAPI set and leaves meshnet_config and old_meshnet_config as they
\* were; and a set_config(Some(cfg)) that returns Ok has matching keys.
C1_set_config_key_agreement ==
    [][\A cfg \in KeyConfigs, fault \in Faults :
          (validate_keys /\ set_config(Some(cfg), fault)) =>
              /\ cfg.this_public_key # public(private_key) =>
                    /\ last'.result = "BadPublicKey"
                    /\ last'.writes = 0
                    /\ meshnet_config' = meshnet_config
                    /\ old_meshnet_config' = old_meshnet_config
              /\ last'.result = "Ok" => cfg.this_public_key = public(private_key)]_vars

\* a config is rejected for its key while an accepted one is in force
C1_witness ==
    /\ validate_keys
    /\ last.op = "set_config" /\ last.result = "BadPublicKey"
    /\ is_some(meshnet_config)

\* ---- C2 (SpecKeys)
\* C2: with key validation enabled, in every reachable state a present
\* meshnet_config has this.public_key equal to the public key of the requested
\* private key.
C2_config_key_matches_device_key ==
    (validate_keys /\ is_some(meshnet_config)) =>
        unwrap(meshnet_config).this_public_key = public(private_key)

\* a key change was refused while meshnet is on and an exit node is requested
C2_witness ==
    /\ validate_keys /\ is_some(meshnet_config)
    /\ last.op = "set_private_key" /\ last.result = "BadPublicKey"
    /\ is_some(exit_node)

\* ---- C3 (SpecKeys)
\* C3 as stated: while meshnet is enabled, set_private_key(K') with K' other
\* than the current key fails with BadPublicKey, issues no UAPI set and leaves
\* the key as it was; with meshnet and DNS disabled it succeeds and the key
\* becomes K'.
C3_original ==
    [][\A key \in SecretKeys :
          set_private_key(key) =>
              /\ (is_some(meshnet_config) /\ key # private_key) =>
                    /\ last'.result = "BadPublicKey"
                    /\ last'.writes = 0
                    /\ private_key' = private_key
              /\ (is_none(meshnet_config) /\ ~dns_resolver) =>
                    /\ last'.result = "Ok"
                    /\ private_key' = key]_vars

\* C3 amended: the rejection of a new key while meshnet is enabled holds when
\* key validation is enabled (features.validate_keys); the rest as stated.
C3_set_private_key_under_meshnet ==
    [][\A key \in SecretKeys :
          set_private_key(key) =>
              /\ (validate_keys /\ is_some(meshnet_config) /\ key # private_key) =>
                    /\ last'.result = "BadPublicKey"
                    /\ last'.writes = 0
                    /\ private_key' = private_key
              /\ (is_none(meshnet_config) /\ ~dns_resolver) =>
                    /\ last'.result = "Ok"
                    /\ private_key' = key]_vars

\* a new key was accepted with meshnet and DNS disabled and written to the
\* interface
C3_witness ==
    /\ validate_keys
    /\ last.op = "set_private_key" /\ last.result = "Ok" /\ last.writes = 1
    /\ is_none(meshnet_config) /\ ~dns_resolver

\* ---- C4 (Spec)
\* C4: no two distinct peers of the live interface have an allowed-IP network
\* in common, after every consolidation, whatever triggered it.
C4_allowed_ips_disjoint ==
    \A p, q \in DOMAIN wg.peers :
        p # q => wg.peers[p].allowed_ips \cap wg.peers[q].allowed_ips = {}

\* a consolidation was refused for a duplicate while two peers are live
C4_witness ==
    /\ last.result = "BadAllowedIps"
    /\ Cardinality(DOMAIN wg.peers) >= 2

\* ---- C5 (Spec)
\* C5: connect_exit_node for a VPN exit (not a peer of the meshnet config, with
\* an endpoint) whose allowed_ips contain an address owned by a peer of the
\* current meshnet config fails with BadAllowedIps and issues no UAPI set.
owned_ips(mc) ==
    UNION {IF is_none(p.ip_addresses) THEN {} ELSE unwrap(p.ip_addresses) :
              p \in peers_of(mc)}

C5_duplicate_allowed_ips_rejected ==
    [][\A node \in ExitNodes :
          (/\ connect_exit_node(node, "none")
           /\ node.public_key \notin peer_keys(meshnet_config)
           /\ is_some(node.endpoint)
           /\ is_some(node.allowed_ips)
           /\ unwrap(node.allowed_ips) \cap owned_ips(meshnet_config) # {}) =>
              /\ last'.result = "BadAllowedIps"
              /\ last'.writes = 0]_vars

\* the VPN exit was refused while the two mesh peers own distinct addresses
C5_witness ==
    /\ last.op = "connect_exit_node" /\ last.result = "BadAllowedIps"
    /\ Cardinality(owned_ips(meshnet_config)) = 2
    /\ is_some(exit_node) /\ unwrap(exit_node).public_key \in VpnKeys

\* ---- C6 (Spec)
\* C6: a connect_exit_node call that fails with BadAllowedIps leaves
\* requested_state.exit_node as it was before the call (stated for the calls
\* that follow a set_config that returned Ok, as in scenario S4).
C6_rejected_exit_not_recorded ==
    [][\A node \in ExitNodes :
          (/\ last.op = "set_config" /\ last.result = "Ok"
           /\ connect_exit_node(node, "none")
           /\ last'.result = "BadAllowedIps") =>
              exit_node' = exit_node]_vars

\* ---- C7 (Spec)
\* C7: at most one peer of the live interface has 0.0.0.0/0 among its
\* allowed_ips.
C7_exit_uniqueness ==
    Cardinality({pk \in DOMAIN wg.peers :
                    DefaultRouteV4 \in wg.peers[pk].allowed_ips}) <= 1

\* a mesh peer is the exit right after a VPN exit was disconnected
C7_witness ==
    /\ is_some(exit_node) /\ unwrap(exit_node).public_key \in MeshKeys
    /\ is_some(last_exit_node) /\ unwrap(last_exit_node).public_key \in VpnKeys
    /\ last.op = "connect_exit_node" /\ last.result = "Ok"
    /\ \E pk \in DOMAIN wg.peers : DefaultRouteV4 \in wg.peers[pk].allowed_ips

\* ---- C8 (Spec)
\* the action just executed ended in a consolidation that succeeded
LastConsolidated ==
    /\ last.op \in {"set_config", "set_private_key", "connect_exit_node"}
    /\ last.result = "Ok"

\* C8: after a consolidation that succeeded, with requested state and live
\* inputs unchanged, the next consolidation (the tick) issues no UAPI set; and
\* re-issuing the set_config in force, the proxy already serving its peers,
\* issues no UAPI set.
C8_idempotent_consolidation ==
    [][LastConsolidated =>
          /\ tick => last'.writes = 0
          /\ (set_config(meshnet_config, "none")
              /\ proxy_peers = peer_keys(meshnet_config)) => last'.writes = 0]_vars

\* the config was re-issued while a mesh exit is connected: Ok, nothing written
C8_witness ==
    /\ last.op = "set_config" /\ last.result = "Ok" /\ last.writes = 0
    /\ is_some(meshnet_config) /\ meshnet_config = old_meshnet_config
    /\ is_some(exit_node) /\ unwrap(exit_node).public_key \in MeshKeys
    /\ Cardinality(DOMAIN wg.peers) = 2

\* ---- C9 (Spec)
\* C9: set_config(None) issued while the requested exit node is a peer of the
\* config being replaced sets exit_node to None; issued while it is a VPN node
\* (not among that config's peers) it leaves exit_node as it was.
C9_exit_demote_on_disable ==
    [][(set_config(None, "none") /\ is_some(exit_node)) =>
          IF unwrap(exit_node).public_key \in peer_keys(meshnet_config)
          THEN exit_node' = None
          ELSE exit_node' = exit_node]_vars

\* ---- C10 (Spec)
\* C10: after connecting to a meshnet exit peer M, set_config with a config
\* whose peers no longer contain M makes exit_node None (stated for the calls
\* made once the interface has its listen port, as in scenario S5).
C10_exit_demote_on_config_change ==
    [][\A cfg \in ExitConfigs :
          (/\ set_config(Some(cfg), "none")
           /\ is_some(wg.listen_port)
           /\ is_some(exit_node)
           /\ unwrap(exit_node).public_key \in peer_keys(meshnet_config)
           /\ unwrap(exit_node).public_key \notin peer_keys(Some(cfg))) =>
              exit_node' = None]_vars

\* ---- C11 (Spec)
\* C11: in every reachable state a requested exit node that has no endpoint is
\* a peer of the current meshnet config: meshnet is enabled and the node's
\* public key is among meshnet_config.peers.
C11_endpointless_exit_is_mesh_peer ==
    (is_some(exit_node) /\ is_none(unwrap(exit_node).endpoint)) =>
        /\ is_some(meshnet_config)
        /\ unwrap(exit_node).public_key \in peer_keys(meshnet_config)

C13_disconnect_exit_node ==
    [][\A pk \in MeshKeys \cup VpnKeys :
          disconnect_exit_node(pk, "none") =>
              IF is_none(exit_node) \/ unwrap(exit_node).public_key # pk
              THEN /\ last'.result = "InvalidNode"
                   /\ last'.writes = 0
                   /\ UNCHANGED <<private_key, meshnet_config, old_meshnet_config,
                                  exit_node, last_exit_node, upstream_servers, wg>>
              ELSE /\ exit_node' = None
                   /\ last_exit_node' = exit_node]_vars

\* a disconnect by another key was refused, the VPN exit stays requested, and
\* before that a mesh exit had been disconnected by its key
C13_witness ==
    /\ last.op = "disconnect_exit_node" /\ last.result = "InvalidNode"
    /\ is_some(exit_node) /\ unwrap(exit_node).public_key \in VpnKeys
    /\ is_some(last_exit_node) /\ unwrap(last_exit_node).public_key \in MeshKeys

\* ---- C14 (Spec)
\* the live interface already is what the requested state asks for: a
\* consolidation would succeed and write nothing
InterfaceConsolidated ==
    LET c == consolidate_wg_state(RS(private_key, meshnet_config, exit_node),
                                  proxy_peers, wg)
    IN  c.result = "Ok" /\ c.writes = 0

C15_start_stop ==
    [][/\ \A key \in SecretKeys, fault \in StartFaults :
            Device_start(key, Features_default, FALSE, fault) =>
                /\ running =>
                      /\ last'.result = "AlreadyStarted"
                      /\ UNCHANGED <<runtime_vars, running>>
                /\ ~running =>
                      /\ last'.result # "AlreadyStarted"
                      /\ running' = (last'.result = "Ok")
                      /\ (fault = "none") => last'.result = "Ok"
       /\ \A held \in SUBSET Entities : Device_stop(held) => ~running']_vars

\* a second start was refused while the Runtime has a config, on a device that
\* had been stopped and started again before
C15_witness ==
    /\ last.op = "start" /\ last.result = "AlreadyStarted"
    /\ running /\ is_some(meshnet_config)
    /\ leaked # {}

zero_port_absent(item) ==
    [item EXCEPT !.listen_port = IF @ = Some(0) THEN None ELSE @]

\* C18 as stated: for every Interface D, writing D as a UAPI set command and
\* parsing the frame yields an Interface equal to D in every field of the
\* interface and of every peer, apart from listen_port 0 becoming absent.
C18_original ==
    \A r \in uapi_ret :
        /\ r.fn = "response_from_read" =>
               r.ret.interface = Some(zero_port_absent(unwrap(uapi_arg)))
        /\ r.fn = "from_set_Device" =>
               r.ret \in {unwrap(uapi_arg), zero_port_absent(unwrap(uapi_arg))}

\* what a set command carries of a peer: no transfer counters, no handshake
\* age, a 16-bit keepalive, allowed-IP networks by their network address
as_sent(p) ==
    [p EXCEPT !.rx_bytes = None,
              !.tx_bytes = None,
              !.time_since_last_handshake = None,
              !.persistent_keepalive_interval = {k % 65536 : k \in @},
              !.allowed_ips = [i \in DOMAIN @ |->
                                  <<@[i][1] - (@[i][1] % (2 ^ (AddrBits - @[i][2]))),
                                    @[i][2]>>]]

\* C18 amended: converting D to a set::Device and back yields D with every
\* peer reduced to what a set command carries (listen_port 0 is kept); writing
\* the set::Device as a frame and parsing it yields the same with listen_port
\* 0 absent, and no interface at all when D has no private key, no listen
\* port, no fwmark and no peers.
C18_uapi_set_roundtrip ==
    \A r \in uapi_ret :
        LET item == unwrap(uapi_arg)
            sent == [item EXCEPT !.peers = [pk \in DOMAIN @ |-> as_sent(@[pk])]]
        IN  /\ r.fn = "from_set_Device" => r.ret = sent
            /\ r.fn = "response_from_read" =>
                   /\ r.ret.errno = 0
                   /\ r.ret.interface =
                          IF /\ is_none(item.private_key) /\ is_none(item.listen_port)
                             /\ item.fwmark = 0 /\ DOMAIN item.peers = {}
                          THEN None
                          ELSE Some(zero_port_absent(sent))

\* an Interface with listen_port 0, a fwmark and two peers, one of them with
\* counters, a keepalive beyond 16 bits and a network with host bits, was
\* written and read back
C18_witness ==
    \E r \in uapi_ret :
        /\ r.fn = "response_from_read"
        /\ is_some(r.ret.interface)
        /\ LET item == unwrap(uapi_arg)
           IN  /\ item.listen_port = Some(0) /\ item.fwmark # 0
               /\ Cardinality(DOMAIN item.peers) = 2
               /\ \E pk \in DOMAIN item.peers :
                      /\ is_some(item.peers[pk].rx_bytes)
                      /\ item.peers[pk].persistent_keepalive_interval = Some(65536 + 25)
                      /\ Len(item.peers[pk].allowed_ips) = 2
               /\ DOMAIN unwrap(r.ret.interface).peers = DOMAIN item.peers
               /\ unwrap(r.ret.interface).listen_port = None

\* ---- C19 (SpecUapi)
\* C19: Peer::is_connected is true exactly when time_since_last_handshake is
\* present and below 180 s + 334 ms: true at 179.999 s and at 180.333 s, false
\* at 180.334 s and above and when absent; Peer::state is Connected in exactly
\* those cases and Connecting otherwise.
C19_connected_threshold ==
    \A r \in uapi_ret :
        r.fn = "state" =>
            LET t == r.peer.time_since_last_handshake
            IN  /\ r.ret.is_connected = (is_some(t) /\ unwrap(t) < 180334)
                /\ t \in {Some(179999), Some(180333)} => r.ret.is_connected
                /\ t \in {None, Some(180334), Some(180335)} => ~r.ret.is_connected
                /\ r.ret.state = IF r.ret.is_connected THEN "Connected" ELSE "Connecting"

\* a peer whose last handshake is 180.333 s old was found connected
C19_witness ==
    \E r \in uapi_ret :
        /\ r.fn = "state"
        /\ r.peer.time_since_last_handshake = Some(180333)
        /\ r.ret.is_connected /\ r.ret.state = "Connected"

\* ---- C20 (SpecEvents)
\* C20: for every Node made by peer_to_node, in a Node event and in
\* external_nodes, path is Relay exactly when the peer has a live endpoint and
\* the proxy's endpoint map holds that very endpoint for the peer's public
\* key; with no endpoint, no entry for the key or a different endpoint, path
\* is Direct.  The entries of the map are the proxy's local endpoints of the
\* peers it is configured with.
C20_path_classification ==
    last.op \in {"wg_event", "external_nodes"} =>
        /\ \A pk \in DOMAIN last.endpoint_map :
               pk \in proxy_peers /\ last.endpoint_map[pk] = ProxyEndpoint(pk)
        /\ \A n \in node_event :
               /\ n.path \in {"Relay", "Direct"}
               /\ n.path = "Relay" <=>
                      /\ n.endpoint # None
                      /\ n.public_key \in DOMAIN last.endpoint_map
                      /\ n.endpoint = Some(last.endpoint_map[n.public_key])

\* a peer event was reported as relayed, and external_nodes can report a
\* relayed mesh peer next to a direct VPN exit
C20_witness ==
    /\ last.op = "wg_event"
    /\ \E n \in node_event :
           /\ n.path = "Relay"
           /\ n.public_key \in proxy_peers
           /\ n.endpoint = Some(ProxyEndpoint(n.public_key))

C20_reached_direct_other_endpoint ==
    /\ last.op = "wg_event"
    /\ \E n \in node_event :
           /\ n.path = "Direct" /\ n.endpoint # None
           /\ n.public_key \in DOMAIN last.endpoint_map

C20_reached_external_mixed ==
    /\ last.op = "external_nodes"
    /\ \E n, m \in node_event : n.path = "Relay" /\ m.path = "Direct" /\ m.is_vpn

C20_reached_no_map ==
    /\ last.op = "wg_event" /\ last.endpoint_map = <<>> /\ proxy_peers # {}
    /\ \E n \in node_event : n.endpoint = Some(ProxyEndpoint(n.public_key))

\* ---- C21 (SpecEvents)
\* the peers peer_to_node has a Node for: those of the current or the old
\* meshnet config and the requested exit node or, with none requested, the
\* last one
reportable_keys ==
    peer_keys(meshnet_config) \cup peer_keys(old_meshnet_config)
    \cup {n.public_key : n \in (IF exit_node # None THEN exit_node ELSE last_exit_node)}

\* C21 as stated: every peer-state event of the driver that the runtime loop
\* handles is followed by exactly one Node event, whatever peer it concerns.
C21_original ==
    last.op = "wg_event" => Cardinality(node_event) = 1

\* C21 amended: a handled peer-state event publishes exactly one Node event,
\* for the peer and with the state of the event, when the peer belongs to the
\* current or old meshnet config or is the requested (else the last) exit
\* node; for any other peer it publishes none.
C21_one_node_event_per_known_peer ==
    last.op = "wg_event" =>
        LET event == unwrap(last.event)
        IN  /\ Cardinality(node_event) =
                   IF event.peer.public_key \in reportable_keys THEN 1 ELSE 0
            /\ \A n \in node_event :
                   /\ n.public_key = event.peer.public_key
                   /\ n.state = event.state
                   /\ n.endpoint = event.peer.endpoint

\* an event for a peer of the old meshnet config only was published
C21_witness ==
    /\ last.op = "wg_event"
    /\ unwrap(last.event).peer.public_key \in peer_keys(old_meshnet_config)
    /\ unwrap(last.event).peer.public_key \notin peer_keys(meshnet_config)
    /\ Cardinality(node_event) = 1

\* ---- C22 (SpecResponse)
\* the value of the frame's line with the given key, None without such a line
line_value(frame, key) ==
    {frame[i][2][2] : i \in {j \in DOMAIN frame : frame[j] # <<>> /\ frame[j][1] = key}}

\* C22: parsing a response maps listen_port=0 to an absent listen_port and
\* listen_port=p, for a port p > 0, to Some(p); the response made of
\* listen_port=0 and errno=0 alone parses to errno 0 with a present interface
\* equal to the default interface.
C22_zero_listen_port_becomes_none ==
    \A r \in uapi_ret :
        r.fn = "response_from_str" =>
            LET frame == unwrap(uapi_arg)
                port == line_value(frame, "listen_port")
            IN  /\ port = Some(0) =>
                       /\ is_some(r.ret.interface)
                       /\ unwrap(r.ret.interface).listen_port = None
                /\ (\E x \in 1 .. 65535 : port = Some(x)) =>
                       /\ is_some(r.ret.interface)
                       /\ unwrap(r.ret.interface).listen_port = port
                /\ frame = << <<"listen_port", <<"dec", 0>> >>,
                              <<"errno", <<"dec", 0>> >>, <<>> >> =>
                       r.ret = [errno |-> 0,
                                interface |-> Some([private_key |-> None,
                                                    listen_port |-> None,
                                                    fwmark |-> 0, peers |-> <<>>])]

\* the response of zero_listen_port_becomes_none was parsed
C22_witness ==
    \E r \in uapi_ret :
        /\ r.fn = "response_from_str"
        /\ unwrap(uapi_arg) = << <<"listen_port", <<"dec", 0>> >>,
                                 <<"errno", <<"dec", 0>> >>, <<>> >>
        /\ r.ret.errno = 0 /\ is_some(r.ret.interface)

\* a listen_port beyond 16 bits is a parsing error
C22_reached_port_out_of_range ==
    \E r \in uapi_ret :
        r.fn = "response_from_str" /\ r.ret = [error |-> "listen_port"]

\* ---- C23 (SpecRecords)
\* the nodes of the requested config, peers and local node, in any order
requested_nodes(mc) ==
    IF is_none(mc) THEN {}
    ELSE {unwrap(mc).this}
         \cup (IF is_none(unwrap(mc).peers) THEN {}
               ELSE {unwrap(unwrap(mc).peers)[i] : i \in DOMAIN unwrap(unwrap(mc).peers)})

\* C23 as stated: the records are the mapping hostname -> ip_addresses over
\* every peer and the local node that has ip_addresses set, with no entry for
\* a node without ip_addresses and no other entry; none without a config.
C23_original ==
    \A r \in uapi_ret :
        r.fn = "collect_dns_records" =>
            LET nodes == requested_nodes(unwrap(uapi_arg).meshnet_config)
            IN  /\ \A v \in nodes :
                       IF is_some(v.ip_addresses)
                       THEN /\ v.hostname \in DOMAIN r.ret
                            /\ r.ret[v.hostname] = unwrap(v.ip_addresses)
                       ELSE v.hostname \notin DOMAIN r.ret
                /\ \A h \in DOMAIN r.ret : \E v \in nodes : v.hostname = h
                /\ is_none(unwrap(uapi_arg).meshnet_config) => r.ret = <<>>

\* C23 amended: the records have an entry for exactly the hostnames of the
\* nodes (peers and local node) that have ip_addresses set; the entry of a
\* hostname is the ip_addresses of the last such node of that name, peers in
\* their order and the local node last; none without a config.
C23_collect_dns_records ==
    \A r \in uapi_ret :
        r.fn = "collect_dns_records" =>
            LET mc == unwrap(uapi_arg).meshnet_config
                ordered == IF is_none(mc) THEN <<>>
                           ELSE (IF is_none(unwrap(mc).peers) THEN <<>>
                                 ELSE unwrap(unwrap(mc).peers)) \o <<unwrap(mc).this>>
                set == {i \in DOMAIN ordered : is_some(ordered[i].ip_addresses)}
            IN  /\ DOMAIN r.ret = {ordered[i].hostname : i \in set}
                /\ \A i \in set :
                       (\A j \in set : ordered[j].hostname = ordered[i].hostname => j <= i)
                           => r.ret[ordered[i].hostname] = unwrap(ordered[i].ip_addresses)
                /\ is_none(mc) => r.ret = <<>>

\* a peer without addresses, a peer with addresses and the local node with
\* addresses gave two entries
C23_witness ==
    \E r \in uapi_ret :
        /\ r.fn = "collect_dns_records"
        /\ is_some(unwrap(uapi_arg).meshnet_config)
        /\ LET cfg == unwrap(unwrap(uapi_arg).meshnet_config)
           IN  /\ is_some(cfg.peers) /\ Len(unwrap(cfg.peers)) = 2
               /\ is_none(unwrap(cfg.peers)[1].ip_addresses)
               /\ is_some(unwrap(cfg.peers)[2].ip_addresses)
               /\ is_some(cfg.this.ip_addresses)
               /\ Cardinality(DOMAIN r.ret) = 2

\* ---- C24 (SpecLifecycle)
\* C24: a Runtime started with features.direct present has each of the Local,
\* STUN and UPnP endpoint providers exactly when providers is None or contains
\* that kind: all three for None, none for the empty set; the providers given
\* to cross-ping check are exactly the created ones; with features.direct
\* absent there are no direct entities.
C24_direct_providers ==
    [][\A features \in FeatureSets, lana \in BOOLEAN, fault \in LifecycleFaults :
          (Device_start(1, features, lana, fault) /\ ~running /\ running') =>
              LET ent == unwrap(entities')
              IN  IF features.direct = None THEN ent.direct = None
                  ELSE LET d == unwrap(ent.direct)
                           ps == unwrap(features.direct).providers
                           wanted == IF ps = None THEN {"Local", "Stun", "Upnp"}
                                     ELSE unwrap(ps)
                           given == d.cross_ping_check.endpoint_providers
                       IN  /\ d.local_interfaces_endpoint_provider = ("Local" \in wanted)
                           /\ d.stun_endpoint_provider = ("Stun" \in wanted)
                           /\ d.upnp_endpoint_provider = ("Upnp" \in wanted)
                           /\ {given[i] : i \in DOMAIN given} =
                                  {"LocalInterfacesEndpointProvider" : x \in wanted \cap {"Local"}}
                                  \cup {"StunEndpointProvider" : x \in wanted \cap {"Stun"}}
                                  \cup {"UpnpEndpointProvider" : x \in wanted \cap {"Upnp"}}
                           /\ Len(given) = Cardinality(wanted)]_vars

\* a Runtime runs with the STUN provider alone, handed to cross-ping check
C24_witness ==
    /\ running /\ last.op = "start" /\ last.result = "Ok"
    /\ is_some(entities) /\ is_some(unwrap(entities).direct)
    /\ LET d == unwrap(unwrap(entities).direct)
       IN  /\ d.stun_endpoint_provider
           /\ ~d.local_interfaces_endpoint_provider /\ ~d.upnp_endpoint_provider
           /\ d.cross_ping_check.endpoint_providers = <<"StunEndpointProvider">>

\* all three providers by default
C24_reached_default_providers ==
    /\ running /\ is_some(entities) /\ is_some(unwrap(entities).direct)
    /\ Len(unwrap(unwrap(entities).direct).endpoint_providers) = 3
    /\ unwrap(entities).nurse

\* ---------------------------------------------------------------- C30

Reverse(s) == [i \in 1..Len(s) |-> s[Len(s) + 1 - i]]

\* C30: Runtime stop stops the components in exactly the reverse of the
\* order in which Runtime start started them.
C30_stop_reverses_start ==
    [][\A held \in HeldSets :
        (Device_stop(held) /\ running)
            => last'.stopped = Reverse(SelectSeq(unwrap(entities).started,
                                                 LAMBDA c : c \notin held))]_vars

\* a Runtime with the direct entities and telemetry is stopped, every
\* component solely owned
C30_reached_full_stop ==
    /\ ~running /\ last.op = "stop" /\ "stopped" \in DOMAIN last
    /\ Len(last.stopped) = 11

\* ---------------------------------------------------------------- C26

ConsolidatingStimuli ==
    {"wg_endpoint_publish", "endpoint_upgrade", "stun_server", "tick"}

\* C26: each handled wg-endpoint-publish event, upgrade-request event,
\* STUN-server event and tick invokes the consolidator exactly once before
\* the next stimulus is taken; a handled WG peer event or relay event
\* invokes it zero times and issues no UAPI write.
C26_consolidations_per_stimulus ==
    /\ last.op \in ConsolidatingStimuli => last.consolidations = 1
    /\ last.op \in {"wg_event", "derp_event"} =>
           last.consolidations = 0 /\ last.writes = 0
    /\ task.pc = "read" => task.consolidations = 0
    /\ task.pc = "write" => task.consolidations = 1
    /\ task.pc = "select" => task.consolidations = 0

\* a STUN-server event was handled and its one consolidation wrote
C26_witness ==
    /\ last.op = "stun_server" /\ last.consolidations = 1 /\ last.writes > 0
    /\ task.pc = "select"

\* a WG peer event was handled while peers are configured
C26_reached_peer_event ==
    /\ last.op = "wg_event" /\ last.consolidations = 0 /\ DOMAIN wg.peers # {}

\* ---------------------------------------------------------------- C27

requested_fields == <<private_key, meshnet_config, old_meshnet_config, exit_node,
                      last_exit_node, upstream_servers>>

ExternalOps == {"set_config", "connect_exit_node", "disconnect_exit_nodes"}

\* C27: handling an internal stimulus never changes requested_state, except
\* that a STUN-server event replaces wg_stun_server with the received value
\* (possibly None); the other fields change only inside external actions
\* executed by the runtime task.
C27_internal_stimuli_frame ==
    [][/\ \A stimulus \in Stimuli, stun \in StunEvents :
              recv(stimulus, stun) =>
                  /\ UNCHANGED requested_fields
                  /\ wg_stun_server' = IF stimulus = "stun_server" THEN stun
                                       ELSE wg_stun_server
       /\ task.pc # "select" => UNCHANGED <<requested_fields, wg_stun_server>>
       /\ ~UNCHANGED requested_fields =>
              /\ last'.op \in ExternalOps
              /\ task.pc = "select" /\ UNCHANGED <<task, wg_stun_server>>]_vars

\* a STUN server was received under meshnet and its peer consolidated
C27_witness ==
    /\ last.op = "stun_server" /\ is_some(wg_stun_server) /\ is_some(meshnet_config)
    /\ \E x \in StunServers : x.public_key \in DOMAIN wg.peers

\* the event carried None: the server is forgotten and its peer removed
C27_reached_server_withdrawn ==
    /\ last.op = "stun_server" /\ is_none(wg_stun_server) /\ is_some(meshnet_config)
    /\ last.writes > 0
    /\ \A x \in StunServers : x.public_key \notin DOMAIN wg.peers

\* ---------------------------------------------------------------- C28

\* C28: a consolidation failure while handling an internal stimulus is never
\* propagated: the handler returns Ok and the runtime loop goes on to take
\* later events and actions; a consolidation failure inside an external
\* action is returned to that action's caller.
C28_consolidation_failures ==
    [][/\ \A fault \in DriverFaults :
              consolidate_write(fault) =>
                  /\ last'.result = "Ok"
                  /\ last'.op \in ConsolidatingStimuli
                  /\ running' /\ task'.pc = "select"
       /\ \A config \in LoopConfigs :
              (/\ select_ready(task) /\ set_config(Some(config), "none")
               /\ is_some(wg.listen_port)
               /\ ~check_allowed_ips_correctness(
                      requested_peers(RS(private_key, Some(config), exit_node'),
                                      peer_keys(Some(config))))) =>
                  last'.result = "BadAllowedIps"]_vars

\* a tick found the desired interface invalid and returned Ok
C28_witness ==
    /\ last.op = "tick" /\ last.consolidation = "BadAllowedIps" /\ last.result = "Ok"
    /\ task.pc = "select"

\* the driver rejected the write of an endpoint-publish consolidation
C28_reached_driver_rejection ==
    /\ last.op = "wg_endpoint_publish" /\ last.consolidation = "Adapter"
    /\ last.result = "Ok"

\* set_config returned the failure of its consolidation to the caller
C28_reached_external_failure ==
    /\ last.op = "set_config" /\ last.result = "BadAllowedIps"
    /\ is_some(wg.listen_port)

\* ---------------------------------------------------------------- C29

\* C29: at most one consolidation is in progress at any time: between its
\* read of the live interface and its UAPI writes no event or action is
\* taken, and nobody else writes the peers or the key it read.
C29_one_consolidation_in_progress ==
    [][/\ task.in_progress <= 1
       /\ task.pc = "write" =>
              /\ task.in_progress = 1
              /\ unwrap(task.snapshot).peers = wg.peers
              /\ unwrap(task.snapshot).private_key = wg.private_key
       /\ task.in_progress = 1 =>
              \/ \E fault \in DriverFaults : consolidate_write(fault)
              \/ UNCHANGED <<task, requested_fields, wg_stun_server, proxy_peers>>]_vars

\* a consolidation with writes to issue is between its read and its writes
C29_witness ==
    /\ task.pc = "write" /\ task.in_progress = 1
    /\ consolidate_wg_state(RS(private_key, meshnet_config, exit_node),
                            proxy_peers, wg).writes > 0

\* ---------------------------------------------------------------- C25

\* the desired interface of the current requested state and proxy map
Desired == requested_peers(RS(private_key, meshnet_config, exit_node), proxy_peers)

DesiredValid == check_allowed_ips_correctness(Desired)

LiveAgrees == wg.private_key = Some(private_key) /\ wg.peers = Desired

\* a step that changes neither the requested state nor the collaborator
\* inputs, and in which the driver rejects no write
SettledStep ==
    /\ UNCHANGED <<requested_fields, wg_stun_server, proxy_peers>>
    /\ (task.pc = "write" /\ task'.pc = "select") => last'.consolidation # "Adapter"

\* a step that issues no UAPI write
NoWriteStep ==
    /\ last' # last => last'.writes = 0
    /\ wg'.peers = wg.peers /\ wg'.private_key = wg.private_key

\* C25: if from some point on requested_state and the collaborator inputs
\* stop changing, the desired interface is valid and the driver accepts
\* writes, then under fair scheduling of the tick the live interface
\* eventually equals the desired one, also after an earlier consolidation
\* failed, and from then on no further UAPI writes are issued.
C25_eventual_agreement ==
    (<>[][SettledStep]_vars /\ <>[]DesiredValid)
        => (<>[]LiveAgrees /\ <>[][NoWriteStep]_vars)

\* a tick brought the live interface to the desired one, with writes, after
\* a config was stored whose own consolidation did not run
C25_witness ==
    /\ last.op = "tick" /\ last.consolidation = "Ok" /\ last.writes > 0
    /\ LiveAgrees /\ DesiredValid /\ DOMAIN Desired # {}

\* ---------------------------------------------------------------- C31

\* C31: during Runtime stop a component is taken only after every holder of
\* a shared reference to it was stopped or dropped (cross-ping check and the
\* provider list before each provider, each provider before the WireGuard
\* interface, telemetry before the relay client); so with nothing held
\* outside the runtime, every component's stop is invoked.
C31_holders_released_first ==
    [][\A held \in HeldSets :
          (Device_stop(held) /\ running) =>
              LET ent == unwrap(entities)
                  steps == stop_steps(stop_order(ent))
              IN  /\ \A i, j \in 1..Len(steps) :
                         steps[j] \in holders(steps[i]) => j < i
                  /\ held = {} => last'.stopped = stop_order(ent)]_vars

\* a Runtime with telemetry and all providers was stopped, nothing held
\* outside: every stop was invoked
C31_witness ==
    /\ ~running /\ last.op = "stop" /\ "stopped" \in DOMAIN last /\ leaked = {}
    /\ \E i, j, k \in 1..Len(last.stopped) :
           /\ last.stopped[i] = "StunEndpointProvider"
           /\ last.stopped[j] = "WireguardInterface"
           /\ last.stopped[k] = "Nurse"
           /\ i < j

\* the host holds CrossPingCheck: the providers it shares are not stopped,
\* nor is the interface they share
C31_reached_held_cross_ping_check ==
    /\ ~running /\ last.op = "stop" /\ "stopped" \in DOMAIN last
    /\ leaked = {"CrossPingCheck"}
    /\ \A i \in 1..Len(last.stopped) :
           last.stopped[i] \notin ProviderNames \cup {"WireguardInterface"}
    /\ Len(last.stopped) > 0

\* ---------------------------------------------------------------- C32

\* C32: Runtime stop terminates even when one component's stop never
\* completes: the remaining components are still stopped and
\* requested_state is still reset.
C32_stop_terminates ==
    [][\A hung \in Components :
          Device_stop_blocked({}, hung) =>
              /\ last'.result = "Ok"
              /\ last'.stopped = stop_order(unwrap(entities))
              /\ private_key' = DefaultKey
              /\ meshnet_config' = None /\ exit_node' = None]_vars

\* the stop of the WireGuard interface never completed: the relay client and
\* the proxy were not stopped
C32_reached_blocked_stop ==
    /\ last.op = "stop" /\ last.result = "Blocked"
    /\ last.stopped[Len(last.stopped)] = "WireguardInterface"

\* ---------------------------------------------------------------- C33

\* C33: the DNS mutex is never held at the moment a consolidation is
\* invoked: start_dns, stop_dns, set_private_key, set_config,
\* connect_exit_node and disconnect_exit_nodes release the lock before
\* consolidate_wg_state is called, and none acquires it twice without
\* releasing.
C33_dns_mutex_free_at_consolidation ==
    is_some(uapi_ret) /\ "held" \in DOMAIN unwrap(uapi_ret) =>
        /\ unwrap(uapi_ret).held \in {0, 1}
        /\ unwrap(uapi_ret).event = "consolidate" => unwrap(uapi_ret).held = 0
        /\ unwrap(uapi_ret).pc > Len(unwrap(uapi_arg).steps) => unwrap(uapi_ret).held = 0

\* start_dns locked twice, around the resolver and in upsert_dns_peers, and
\* has reached its consolidation
C33_witness ==
    /\ is_some(uapi_ret) /\ "held" \in DOMAIN unwrap(uapi_ret)
    /\ unwrap(uapi_arg).op = "start_dns"
    /\ unwrap(uapi_ret).event = "consolidate"
    /\ unwrap(uapi_ret).pc > Len(unwrap(uapi_arg).steps)

\* a `?` returned while start_dns held the lock
C33_reached_return_under_lock ==
    /\ is_some(uapi_ret) /\ "held" \in DOMAIN unwrap(uapi_ret)
    /\ unwrap(uapi_arg).op = "start_dns" /\ unwrap(uapi_arg).fail = 2
    /\ unwrap(uapi_ret).event = "return"

\* ---------------------------------------------------------------- C34

\* a consolidation of the runtime loop went through and wrote the interface
consolidated_ok ==
    /\ \E fault \in DriverFaults : consolidate_write(fault)
    /\ last'.consolidation = "Ok"

C34_reached_downgrade ==
    /\ last.op = "wg_endpoint_publish" /\ last.consolidation = "Ok"
    /\ \E pk \in peer_keys(meshnet_config) :
           /\ pk \in unwrap(unwrap(entities).direct).upgrade_sync.agreed
           /\ pk \notin unwrap(unwrap(entities).direct).cross_ping_check.elected
           /\ pk \in proxy_peers /\ pk \in DOMAIN wg.peers
           /\ wg.peers[pk].endpoint = Some(ProxyEndpoint(pk))

\* a consolidation ran for a mesh peer the proxy has no port for
C34_reached_no_proxy_port ==
    /\ last.op \in {"wg_endpoint_publish", "endpoint_upgrade"}
    /\ last.consolidation = "Ok"
    /\ \E pk \in peer_keys(meshnet_config) :
           /\ pk \notin proxy_peers /\ pk \in DOMAIN wg.peers
           /\ wg.peers[pk].endpoint = None

\* ---------------------------------------------------------------- C35

\* the lines of a frame up to and including its first empty line
RECURSIVE first_frame(_, _)
first_frame(lines, i) ==
    IF i > Len(lines) THEN lines
    ELSE IF lines[i] = <<>> THEN SubSeq(lines, 1, i)
    ELSE first_frame(lines, i + 1)

\* the frame's first empty line comes after the first public_key line
in_peer_section(lines) ==
    \E i, j \in 1..Len(lines) :
        /\ i < j /\ lines[j] = <<>> /\ lines[i] # <<>> /\ lines[i][1] = "public_key"
        /\ \A n \in 1..j - 1 : lines[n] # <<>>

\* C35: response_from_read treats the first empty line as the end of the
\* frame: the Response is the one of the lines up to that empty line, whatever
\* follows it, whether the empty line is among interface-level keys or inside
\* a peer section
C35_first_empty_line_ends_frame ==
    is_some(uapi_ret) =>
        unwrap(uapi_ret).ret = response_from_read(first_frame(unwrap(uapi_arg), 1))

\* an empty line among interface-level keys ended the frame: the lines after
\* it were not read
C35_reached_interface_level_end ==
    /\ is_some(uapi_ret)
    /\ ~in_peer_section(unwrap(uapi_arg))
    /\ Len(first_frame(unwrap(uapi_arg), 1)) < Len(unwrap(uapi_arg))
    /\ unwrap(uapi_ret).ret = response_from_read(first_frame(unwrap(uapi_arg), 1))

\* an empty line inside a peer section was followed by an errno line, and the
\* Response carries that errno
C35_reached_errno_after_end ==
    /\ is_some(uapi_ret)
    /\ in_peer_section(unwrap(uapi_arg))
    /\ response_from_read(first_frame(unwrap(uapi_arg), 1)).errno = 0
    /\ unwrap(uapi_ret).ret.errno = 5

\* ---------------------------------------------------------------- C36

\* C36: between actions requested_state.upstream_servers is present exactly
\* when the DNS resolver is enabled; an enable_magic_dns that returns an error
\* leaves upstream_servers as it was, and disable_magic_dns leaves both absent
C36_upstream_servers_iff_resolver ==
    [][/\ is_some(upstream_servers') <=> dns_resolver'
       /\ (last'.op = "start_dns" /\ last'.result # "Ok") =>
              (\/ UNCHANGED upstream_servers
               \/ \A servers \in UpstreamServers, fault \in Faults :
                      ~start_dns(servers, fault))
       /\ stop_dns => is_none(upstream_servers') /\ ~dns_resolver']_vars

\* enable_magic_dns failed before a resolver existed, and its servers are
\* requested all the same
C36_reached_servers_without_resolver ==
    /\ last.op = "start_dns" /\ last.result # "Ok"
    /\ is_some(upstream_servers) /\ ~dns_resolver

\* disable_magic_dns after a successful enable_magic_dns: both are absent
C36_reached_disabled ==
    /\ last.op = "stop_dns" /\ is_none(upstream_servers) /\ ~dns_resolver
    /\ is_some(wg.listen_port)

\* ---------------------------------------------------------------- C37

\* C37: the tunnel-bind flag is true only while an exit node is requested:
\* after any completed connect_exit_node (successful or failed),
\* disconnect_exit_node(s), set_config or stop, if requested_state.exit_node
\* is None then the flag is false
C37_bind_only_with_exit_node ==
    (/\ last.op \in {"connect_exit_node", "disconnect_exit_node",
                     "disconnect_exit_nodes", "set_config", "stop"}
     /\ is_none(exit_node)) => ~should_bind

\* connect_exit_node refused a node without an endpoint: no exit node is
\* requested and the flag is set
C37_reached_bind_after_refused_connect ==
    /\ last.op = "connect_exit_node" /\ last.result = "EndpointNotProvided"
    /\ is_none(exit_node) /\ is_none(last_exit_node)
    /\ should_bind

\* set_config(None) dropped the meshnet exit node and left the flag set
C37_reached_bind_after_set_config ==
    /\ last.op = "set_config" /\ last.result = "Ok"
    /\ is_none(meshnet_config) /\ is_none(exit_node)
    /\ should_bind

\* disconnect_exit_nodes cleared the flag together with the exit node
C37_reached_disconnected ==
    /\ last.op = "disconnect_exit_nodes" /\ last.result = "Ok"
    /\ is_none(exit_node) /\ is_some(last_exit_node)
    /\ ~should_bind

\* ---------------------------------------------------------------- C38

\* C38: every event published on the host broadcast channel is passed to
\* event_cb or still awaits the delivery task, and the delivery task keeps
\* delivering, also after the callback has fallen more than the channel's
\* capacity behind the publisher
C38_delivery_for_life ==
    /\ event_rx.receiving
    /\ event_rx.sent = event_rx.called + Len(event_rx.queue)

\* every event published is eventually passed to event_cb
C38_eventually_delivered ==
    \A n \in 1..MaxEvents : (event_rx.sent >= n) ~> (event_rx.called >= n)

\* the callback fell more than the capacity behind, the delivery task ended on
\* the Lagged error, and events published after that were dropped
C38_reached_delivery_ended ==
    /\ ~event_rx.receiving
    /\ event_rx.lagged = 1
    /\ event_rx.sent > event_rx.called + Capacity + 1

\* the callback kept up: every event published was delivered
C38_reached_all_delivered ==
    /\ event_rx.receiving /\ event_rx.queue = <<>>
    /\ event_rx.sent = MaxEvents /\ event_rx.called = MaxEvents

\* ---------------------------------------------------------------- C39

\* C39: a set_config call that returns any error leaves meshnet_config,
\* old_meshnet_config and exit_node exactly as they were before the call
C39_failed_set_config_changes_nothing ==
    [][\A config \in {None} \cup {Some(c) : c \in KeyConfigs}, fault \in Faults :
           (set_config(config, fault) /\ last'.result # "Ok") =>
               UNCHANGED <<meshnet_config, old_meshnet_config, exit_node>>]_vars

\* set_config failed on the adapter and the config it was given is requested
C39_reached_config_stored_on_error ==
    /\ last.op = "set_config" /\ last.result = "Adapter"
    /\ is_some(meshnet_config) /\ is_none(old_meshnet_config)

\* set_config failed in the proxy after a config was in force: the old config
\* was replaced as well
C39_reached_old_config_replaced ==
    /\ last.op = "set_config" /\ last.result = "ProxyError"
    /\ is_none(meshnet_config) /\ is_some(old_meshnet_config)
    /\ proxy_peers # {}

\* set_config refused a config of another key: nothing was stored
C39_reached_bad_public_key ==
    /\ last.op = "set_config" /\ last.result = "BadPublicKey"
    /\ is_none(meshnet_config) /\ is_none(old_meshnet_config)

\* ---------------------------------------------------------------- C40

\* the Node a WG event for peer pk is translated into, None if it is dropped
event_node(pk) ==
    peer_to_node(get_endpoint_map(proxy_peers), LivePeer(pk, None, {}, None),
                 Some("Connected"))

\* a VPN exit node is requested, and the step ends that: through a
\* disconnect, or through connect_exit_node to another node
vpn_exit_ceases ==
    /\ is_some(exit_node) /\ is_some(unwrap(exit_node).endpoint)
    /\ is_none(config_peer(meshnet_config, unwrap(exit_node).public_key))
    /\ ~exit_node_matches(exit_node', unwrap(exit_node).public_key)
    /\ last'.op \in {"disconnect_exit_node", "disconnect_exit_nodes",
                     "connect_exit_node"}

\* C40: a WG peer-state event for a VPN exit peer that has just ceased to be
\* the requested exit node, through disconnect_exit_node, disconnect_exit_nodes
\* or connect_exit_node to a different node, is still translated into a Node
\* event for that peer rather than dropped
C40_former_exit_still_reported ==
    [][\A pk \in VpnKeys :
           (vpn_exit_ceases /\ pk = unwrap(exit_node).public_key) =>
               /\ is_some(event_node(pk)')
               /\ unwrap(event_node(pk)').public_key = pk]_vars

\* the same for the two disconnects alone: last_exit_node keeps the node
C40_disconnected_exit_still_reported ==
    [][\A pk \in VpnKeys :
           (/\ vpn_exit_ceases /\ pk = unwrap(exit_node).public_key
            /\ last'.op # "connect_exit_node") =>
               /\ last_exit_node' = exit_node
               /\ is_some(event_node(pk)')
               /\ unwrap(event_node(pk)').is_vpn]_vars

\* a WG event for the VPN peer that was disconnected was reported as its Node
C40_reached_reported_after_disconnect ==
    /\ last.op = "wg_event" /\ is_none(exit_node)
    /\ \E n \in last_exit_node : /\ n.public_key \in VpnKeys
                                /\ last.event = Some([peer |-> LivePeer(n.public_key, None, {}, None),
                                                      state |-> "Connected"])
    /\ \E n \in node_event : n.public_key \in VpnKeys /\ n.is_vpn /\ n.is_exit

\* a WG event for a VPN peer was dropped while a meshnet peer is the exit node
C40_reached_dropped_after_switch ==
    /\ last.op = "wg_event" /\ node_event = None
    /\ \E e \in last.event : e.peer.public_key \in VpnKeys
    /\ \E n \in exit_node : n.public_key \in MeshKeys

====
